---- MODULE Spec2Model ----
(***************************************************************************)
(* A model of valet_parking: thread parking on one atomic word.            *)
(*                                                                         *)
(*   Waiters  compare_and_wait / store_and_wake  (futex/mod.rs,            *)
(*            imp/futex.rs) over the futex adapter                         *)
(*   Parker   park / unpark                       (futex/mod.rs,           *)
(*            imp/futex.rs) over the futex adapter                         *)
(*   the unpark_ordering test of lib.rs and the OnceCell of                *)
(*   examples/test_synchronization.rs, which are clients of the two        *)
(*                                                                         *)
(* A machine word is modelled as the set of the positions of its one-bits  *)
(* (bit 0 is the least significant): | is \cup, & is \cap, & ! is \ and a  *)
(* shift moves the positions.  This keeps the 32 and 64 bit layouts exact. *)
(* Atomic operations are sequentially consistent steps; every step of a    *)
(* thread between two atomic operations or adapter calls is one action.    *)
(***************************************************************************)
EXTENDS Integers, FiniteSets, Sequences, TLC

VARIABLES
    layout,     \* target: "32", "64le" or "64be" (pointer width and endianness)
    variant,    \* which state machine is compiled in: "mod" (futex/mod.rs) or "imp" (imp/futex.rs)
    platform,   \* the operating system interface in use: "linux", "darwin", "posix", "queue", "sgx", on Windows "wait", "keyed", "none"
    cell,       \* the AtomicUsize used through the Waiters trait (a word)
    parker,     \* the AtomicI32 of a Parker
    pc,         \* per thread: the place it has reached
    arg,        \* per thread: the argument of its current call (expected / new, a word)
    tmo,        \* per thread: the timeout argument of its current park call
    waits,      \* per thread: adapter wait calls made by its current call (saturating)
    budget,     \* per parking thread: the park calls it is going to make in this run
    parks,      \* per parking thread: the park calls it has begun
    flag,       \* FLAG of the unpark_ordering test
    round,      \* rounds of the unpark_ordering test begun by the main thread
    value,      \* OnceCell payload (0: None, i: Some(i))
    seen,       \* per thread: the payload get_or_init returned to it (0: not yet)
    conv,       \* the result of the timeout conversion applied last
    left,       \* release_keyed_events: iterations of its loop still to run
    node,       \* per thread: the record on its stack that other threads reach through the cell
    mutex,      \* per thread: the holder of the pthread mutex in its record (0: unlocked)
    status,     \* BACKEND.status of imp/windows.rs
    backend,    \* BACKEND.backend, the Cell<Backend>
    got,        \* per thread: the Backend that BACKEND.get() returned to it
    event       \* fortanix.rs: EV_UNPARK is pending for the TCS of the parking thread

vars == <<layout, variant, platform, cell, parker, pc, arg, tmo, waits, budget,
          parks, flag, round, value, seen, conv, left, node, mutex,
          status, backend, got, event>>

-----------------------------------------------------------------------------
(* Bounds of the model                                                     *)

NWaiters == 2
NWakers == 1
MaxParks == 2      \* park calls made in one run, over all threads
NUnparkers == 2    \* threads that call unpark, once each
WaitCap == 2       \* waits counts 0, 1, .. WaitCap - 1, "WaitCap or more"

-----------------------------------------------------------------------------
(* Words                                                                   *)

Layouts == {"32", "64le", "64be"}
Variants == {"mod", "imp"}

\* mem::size_of::<usize>() * 8
WordBits(l) == IF l = "32" THEN 32 ELSE 64

FREE_BITS == 5
RESERVED_BITS(l) == WordBits(l) - FREE_BITS
\* (1 << RESERVED_BITS) - 1
RESERVED_MASK(l) == 0 .. (RESERVED_BITS(l) - 1)

\* the one-bits of a small natural number
BitsOf(n) == {i \in 0 .. (FREE_BITS - 1) : (n \div (2 ^ i)) % 2 = 1}
\* w << k on a word of the layout's width
Shl(w, k, l) == {b + k : b \in w} \cap (0 .. (WordBits(l) - 1))
\* w >> k
Shr(w, k) == {b - k : b \in {x \in w : x >= k}}
\* w as u32
AsU32(w) == w \cap (0 .. 31)

\* mutant: the big-endian case is left out
UNCOMPARED_LO_BITS_le(l) == 0

\* futex/mod.rs:159-164
UNCOMPARED_LO_BITS(l) ==
    IF l = "64be" THEN 32 ELSE 0
\* futex/mod.rs:97   0x1 << UNCOMPARED_LO_BITS
HAS_WAITERS(l) == Shl({0}, UNCOMPARED_LO_BITS(l), l)

\* get_i32_ref: the AtomicI32 that starts at the address of the AtomicUsize.
\* Its content is the low half of the word on little-endian and the high
\* half on big-endian; on a 32 bit target it is the word.
Window(w, l) ==
    IF l = "64be" THEN Shr(w, 32) ELSE AsU32(w)

\* ((expected | HAS_WAITERS) >> UNCOMPARED_LO_BITS) as u32 as i32
Compare32(expected, l) ==
    AsU32(Shr(expected \cup HAS_WAITERS(l), UNCOMPARED_LO_BITS(l)))

\* the free bits of a word: w & !RESERVED_MASK
FreeBits(w, l) == w \ RESERVED_MASK(l)

\* values a caller keeps in the free bits: n << RESERVED_BITS
FreeVals == {0, 1, 2}
UserValue(n, l) == Shl(BitsOf(n), RESERVED_BITS(l), l)
UserValues(l) == {UserValue(n, l) : n \in FreeVals}

\* arguments of compare_and_wait: the values above, and one with a reserved
\* bit set
ArgValues(l) == UserValues(l) \cup {UserValue(1, l) \cup {0}}

\* mutant: the argument is handed on as it is
ApiExpectedUnmasked(expected, l) == expected

\* lib.rs:173-175  impl Waiters for AtomicUsize: the argument handed on
ApiExpected(expected, l) == expected \ RESERVED_MASK(l)

\* the argument of a thread that makes no call (not a word)
NoCall == {-1}

-----------------------------------------------------------------------------
(* Waiters: compare_and_wait                                               *)

\* mutant: HAS_WAITERS is set first (fetch_or) and the old value tested after
CwCasOrs(t, exp, ret) ==
    /\ pc[t] = "cw_cas"
    /\ cell' = cell \cup HAS_WAITERS(layout)
    /\ pc' = [pc EXCEPT ![t] = IF FreeBits(cell, layout) # exp THEN ret ELSE "cw_wait"]
    /\ UNCHANGED waits

\* The initial compare-exchange.
\*   "mod": compare_and_swap, once; return if the old free bits differ.
\*   "imp": compare_exchange_weak in a loop; a failure whose free bits equal
\*          compare goes round the loop again (the step leaves pc at cw_cas).
CwCas(t, exp, ret) ==
    /\ pc[t] = "cw_cas"
    /\ IF cell = exp
       THEN \/ /\ cell' = exp \cup HAS_WAITERS(layout)
               /\ pc' = [pc EXCEPT ![t] = "cw_wait"]
            \/ /\ variant = "imp"          \* spurious failure of the weak CAS
               /\ UNCHANGED <<cell, pc>>
       ELSE /\ cell' = cell
            /\ pc' = [pc EXCEPT ![t] =
                        IF FreeBits(cell, layout) # exp THEN ret
                        ELSE IF variant = "mod" THEN "cw_wait" ELSE "cw_cas"]
    /\ UNCHANGED waits

\* Futex::wait(compare, None) on the 32-bit window: the kernel compares and
\* either queues the thread or returns at once.  The WakeupReason is dropped
\* by the caller.
CwWait(t, exp) ==
    /\ pc[t] = "cw_wait"
    /\ pc' = [pc EXCEPT ![t] =
                IF Window(cell, layout) = Compare32(exp, layout)
                THEN "cw_blocked" ELSE "cw_check"]
    /\ UNCHANGED <<cell, waits>>

\* The adapter returns although nobody called wake (spurious, interrupt).
CwSpurious(t) ==
    /\ pc[t] = "cw_blocked"
    /\ pc' = [pc EXCEPT ![t] = "cw_check"]
    /\ UNCHANGED <<cell, waits>>

\* mutant: the loop ends whenever the adapter returns
CwCheckAnyReturn(t, exp, ret) ==
    /\ pc[t] = "cw_check"
    /\ pc' = [pc EXCEPT ![t] = ret]
    /\ UNCHANGED <<cell, waits>>

\* The re-check after the wait: leave the loop unless the cell still is
\* expected | HAS_WAITERS.
CwCheck(t, exp, ret) ==
    /\ pc[t] = "cw_check"
    /\ pc' = [pc EXCEPT ![t] =
                IF cell # exp \cup HAS_WAITERS(layout) THEN ret ELSE "cw_wait"]
    /\ UNCHANGED <<cell, waits>>

(* Waiters: store_and_wake                                                 *)

\* mutant: the swap is not followed by a wake
SwSwapNoWake(t, new, ret) ==
    /\ pc[t] = "sw_swap"
    /\ cell' = new
    /\ pc' = [pc EXCEPT ![t] = ret]
    /\ UNCHANGED waits

\* mutant: the new value is merged into the cell, keeping the flag
SwSwapMerges(t, new, ret) ==
    /\ pc[t] = "sw_swap"
    /\ cell' = new \cup (cell \cap HAS_WAITERS(layout))
    /\ pc' = [pc EXCEPT ![t] =
                IF HAS_WAITERS(layout) \subseteq cell THEN "sw_wake" ELSE ret]
    /\ UNCHANGED waits

\* mutant: the wake is made whatever the swap found
SwSwapAlwaysWakes(t, new, ret) ==
    /\ pc[t] = "sw_swap"
    /\ cell' = new
    /\ pc' = [pc EXCEPT ![t] = "sw_wake"]
    /\ UNCHANGED waits

\* atomic.swap(new, Release) & HAS_WAITERS == HAS_WAITERS
SwSwap(t, new, ret) ==
    /\ pc[t] = "sw_swap"
    /\ cell' = new
    /\ pc' = [pc EXCEPT ![t] =
                IF HAS_WAITERS(layout) \subseteq cell THEN "sw_wake" ELSE ret]
    /\ UNCHANGED waits

\* mutant: the wake finds nobody
WakeNone(f) == f

\* Futex::wake: every thread queued on the address is made runnable.
WakeAll(f) ==
    [u \in DOMAIN f |-> IF f[u] = "cw_blocked" THEN "cw_check" ELSE f[u]]

SwWake(t, ret) ==
    /\ pc[t] = "sw_wake"
    /\ pc' = [WakeAll(pc) EXCEPT ![t] = ret]
    /\ UNCHANGED <<cell, waits>>

-----------------------------------------------------------------------------
(* Timeouts and the adapters' conversions                                  *)

\* Option<Duration>: Duration is whole seconds, a u64 kept as the set of its
\* one-bits, and nanoseconds below 10^9
U64 == 0 .. 63
\* the u64 of a natural number below 2^13
SecsOf(n) == {i \in 0 .. 12 : (n \div (2 ^ i)) % 2 = 1}
\* the natural number of a u64 below 2^13
RECURSIVE NatOf(_)
NatOf(w) == IF w = {} THEN 0
            ELSE LET b == CHOOSE x \in w : TRUE IN (2 ^ b) + NatOf(w \ {b})
NoTimeout == [some |-> FALSE, secs |-> {}, nanos |-> 0]
SomeTimeout(s, n) == [some |-> TRUE, secs |-> s, nanos |-> n]
\* Some(Duration::from_millis(10)) of test::unpark_timeout, Some(0), and
\* Some(Duration::from_secs(u64::MAX))
Timeouts == {NoTimeout, SomeTimeout(SecsOf(0), 0), SomeTimeout(SecsOf(0), 10000000),
             SomeTimeout(U64, 0)}
IsZero(timeout) == timeout.some /\ timeout.secs = {} /\ timeout.nanos = 0

Platforms == {"linux", "darwin"}

\* libc::time_t::max_value() as u64: time_t is a signed integer of the width
\* of a long
TimeMax(l) == 0 .. (WordBits(l) - 2)

\* futex/linux.rs convert_timeout: Some(timespec) unless there is no timeout
\* or duration.as_secs() > time_t::max_value().  The result is NoTimeout for
\* a null timespec pointer.
convert_timeout(timeout, l) ==
    IF ~timeout.some THEN NoTimeout
    ELSE IF timeout.secs \ TimeMax(l) # {} THEN NoTimeout
    ELSE SomeTimeout(timeout.secs, timeout.nanos)

\* futex/darwin.rs convert_timeout_us: microseconds, rounded up; 0 stands for
\* "no timeout" and for an overflow of u32 (4294 s 967295 us).
convert_timeout_us(timeout) ==
    IF ~timeout.some THEN 0
    ELSE IF timeout.secs \ (0 .. 12) # {} THEN 0
    ELSE LET secs == NatOf(timeout.secs)
             us == (timeout.nanos + 999) \div 1000
         IN  IF \/ secs > 4294
                \/ (secs = 4294 /\ us > 967295)
             THEN 0
             ELSE secs * 1000000 + us

\* whether the kernel call made by Futex::wait carries no timeout:
\* a null timespec (futex/linux.rs:22-25), 0 microseconds (futex/darwin.rs:76)
WaitsForever(pf, timeout, l) ==
    IF pf = "linux" THEN ~convert_timeout(timeout, l).some
    ELSE convert_timeout_us(timeout) = 0

-----------------------------------------------------------------------------
(* Parker: park                                                            *)

NOT_PARKED == 0
PARKED == 1
NOTIFIED == 2

Bump(n) == IF n < WaitCap THEN n + 1 ELSE n

\* mutant: a pending notification is not looked at; park goes on to wait
PkCasIgnoresNotified(t) ==
    /\ pc[t] = "pk_cas"
    /\ parker' = IF parker = NOT_PARKED THEN PARKED ELSE parker
    /\ pc' = [pc EXCEPT ![t] = IF parker = PARKED THEN "panicked" ELSE "pk_wait"]
    /\ UNCHANGED waits

\* compare_exchange(NOT_PARKED, PARKED, Release, Relaxed) and the match on it
PkCas(t) ==
    /\ pc[t] = "pk_cas"
    /\ parker' = IF parker = NOT_PARKED THEN PARKED ELSE parker
    /\ pc' = [pc EXCEPT ![t] =
                IF parker = NOT_PARKED THEN "pk_wait"
                ELSE IF parker = NOTIFIED THEN "pk_consume"
                ELSE "panicked"]
    /\ UNCHANGED waits

\* mutant: the pending notification is left in place
PkConsumeKeeps(t, ret) ==
    /\ pc[t] = "pk_consume"
    /\ pc' = [pc EXCEPT ![t] = ret]
    /\ UNCHANGED <<parker, waits>>

\* Err(NOTIFIED) => { atomic.store(NOT_PARKED, Relaxed); return; }
PkConsume(t, ret) ==
    /\ pc[t] = "pk_consume"
    /\ parker' = NOT_PARKED
    /\ pc' = [pc EXCEPT ![t] = ret]
    /\ UNCHANGED waits

\* atomic.wait(PARKED, timeout): the kernel compares the word with PARKED and
\* either queues the thread or returns at once
PkWait(t) ==
    /\ pc[t] = "pk_wait"
    /\ pc' = [pc EXCEPT ![t] = IF parker = PARKED THEN "pk_blocked" ELSE "pk_woke"]
    /\ waits' = [waits EXCEPT ![t] = Bump(@)]
    /\ UNCHANGED parker

\* the adapter returns although nobody called wake (spurious, interrupt)
PkSpurious(t) ==
    /\ pc[t] = "pk_blocked"
    /\ pc' = [pc EXCEPT ![t] = "pk_woke"]
    /\ UNCHANGED <<parker, waits>>

\* the timeout handed to the kernel expires
PkTimeout(t) ==
    /\ pc[t] = "pk_blocked"
    /\ ~WaitsForever(platform, tmo[t], layout)
    /\ pc' = [pc EXCEPT ![t] = "pk_woke"]
    /\ UNCHANGED <<parker, waits>>

\* mutant: park returns whenever the adapter returns
PkWokeAnyReturn(t, ret) ==
    /\ pc[t] = "pk_woke"
    /\ parker' = NOT_PARKED
    /\ pc' = [pc EXCEPT ![t] = ret]
    /\ UNCHANGED waits

\* mutant: a park with a timeout goes round again like park(None)
PkWokeIgnoresTimeout(t, ret) ==
    /\ pc[t] = "pk_woke"
    /\ parker' = NOT_PARKED
    /\ pc' = [pc EXCEPT ![t] = IF parker = NOTIFIED THEN ret ELSE "pk_cas"]
    /\ UNCHANGED waits

\* mutant: imp/futex.rs returns from a park with a timeout without its store
PkWokeLeavesParked(t, ret) ==
    /\ pc[t] = "pk_woke"
    /\ IF variant = "mod"
       THEN /\ parker' = NOT_PARKED
            /\ pc' = [pc EXCEPT ![t] =
                        IF parker = NOTIFIED \/ tmo[t].some THEN ret ELSE "pk_cas"]
       ELSE IF tmo[t].some
            THEN /\ parker' = parker
                 /\ pc' = [pc EXCEPT ![t] = ret]
            ELSE /\ parker' = IF parker = NOTIFIED THEN NOT_PARKED ELSE parker
                 /\ pc' = [pc EXCEPT ![t] =
                             IF parker = NOTIFIED THEN ret ELSE "pk_wait"]
    /\ UNCHANGED waits

\* After the wait.
\*   "mod" (futex/mod.rs:191-196): swap(NOT_PARKED); leave if the old state
\*         was NOTIFIED or a timeout was given, else go round the outer loop,
\*         back to the compare_exchange.
\*   "imp" (imp/futex.rs:74-84): with a timeout store NOT_PARKED and return;
\*         else compare_exchange(NOTIFIED, NOT_PARKED), on failure wait again.
PkWoke(t, ret) ==
    /\ pc[t] = "pk_woke"
    /\ IF variant = "mod"
       THEN /\ parker' = NOT_PARKED
            /\ pc' = [pc EXCEPT ![t] =
                        IF parker = NOTIFIED \/ tmo[t].some THEN ret ELSE "pk_cas"]
       ELSE IF tmo[t].some
            THEN /\ parker' = NOT_PARKED
                 /\ pc' = [pc EXCEPT ![t] = ret]
            ELSE /\ parker' = IF parker = NOTIFIED THEN NOT_PARKED ELSE parker
                 /\ pc' = [pc EXCEPT ![t] =
                             IF parker = NOTIFIED THEN ret ELSE "pk_wait"]
    /\ UNCHANGED waits

(* Parker: unpark                                                          *)

\* mutant: unpark never calls wake
UpSwapNoWake(t, ret) ==
    /\ pc[t] = "up_swap"
    /\ parker' = NOTIFIED
    /\ pc' = [pc EXCEPT ![t] = ret]
    /\ UNCHANGED waits

\* mutant: unpark calls wake whatever the state was
UpSwapWakesAgain(t, ret) ==
    /\ pc[t] = "up_swap"
    /\ parker' = NOTIFIED
    /\ pc' = [pc EXCEPT ![t] = "up_wake"]
    /\ UNCHANGED waits

\* mutant: unpark sets the NOTIFIED bit on top of the state (fetch_or)
UpSwapOrs(t, ret) ==
    /\ pc[t] = "up_swap"
    /\ parker' = IF parker = PARKED THEN PARKED + NOTIFIED ELSE NOTIFIED
    /\ pc' = [pc EXCEPT ![t] = IF parker = PARKED THEN "up_wake" ELSE ret]
    /\ UNCHANGED waits

\* mutant: unpark hands the Parker back itself (PARKED becomes NOT_PARKED)
UpSwapClears(t, ret) ==
    /\ pc[t] = "up_swap"
    /\ parker' = IF parker = PARKED THEN NOT_PARKED ELSE NOTIFIED
    /\ pc' = [pc EXCEPT ![t] = IF parker = PARKED THEN "up_wake" ELSE ret]
    /\ UNCHANGED waits

\* atomic.swap(NOTIFIED, Release) == PARKED
UpSwap(t, ret) ==
    /\ pc[t] = "up_swap"
    /\ parker' = NOTIFIED
    /\ pc' = [pc EXCEPT ![t] = IF parker = PARKED THEN "up_wake" ELSE ret]
    /\ UNCHANGED waits

\* Futex::wake: every thread queued on the address is made runnable
UnparkAll(f) ==
    [u \in DOMAIN f |-> IF f[u] = "pk_blocked" THEN "pk_woke" ELSE f[u]]

UpWake(t, ret) ==
    /\ pc[t] = "up_wake"
    /\ pc' = [UnparkAll(pc) EXCEPT ![t] = ret]
    /\ UNCHANGED <<parker, waits>>

-----------------------------------------------------------------------------
(* Waiters on one cell: NWaiters threads call compare_and_wait, NWakers    *)
(* threads call store_and_wake or nothing.                                 *)

Waiters == 1 .. NWaiters
Wakers == (NWaiters + 1) .. (NWaiters + NWakers)

otherW == <<layout, variant, platform, status, backend, got, event, parker, arg, tmo, budget, parks, flag, round, value, seen, conv, left, node, mutex>>

\* the calls the threads make: every waiter calls compare_and_wait(a[t]),
\* the first of them with any argument, and a waker calls
\* store_and_wake(a[t]) or nothing
Calls(l) ==
    {a \in [Waiters \cup Wakers -> ArgValues(l) \cup {NoCall}] :
        /\ \A t \in Waiters : a[t] # NoCall
        /\ \A t \in Waiters \ {1} : a[t] \in UserValues(l)
        /\ \A w \in Wakers : a[w] \in UserValues(l) \cup {NoCall}}

\* All waiters pass the same v, and exactly one thread calls
\* store_and_wake(w), with free bits other than v.
OneStore(a, l) ==
    /\ \A t, u \in Waiters : a[t] = a[u] /\ a[t] \in UserValues(l)
    /\ Cardinality({w \in Wakers : a[w] # NoCall}) = 1
    /\ \A w \in Wakers : \A t \in Waiters :
          a[w] # NoCall => FreeBits(a[w], l) # a[t]

InitCalls(one) ==
    /\ layout \in Layouts
    /\ variant \in Variants
    /\ platform = "linux"
    /\ cell \in UserValues(layout)
    /\ parker = 0
    /\ arg \in IF one THEN {a \in Calls(layout) : OneStore(a, layout)} ELSE Calls(layout)
    /\ pc = [t \in Waiters \cup Wakers |->
                IF t \in Waiters THEN "cw_cas"
                ELSE IF arg[t] = NoCall THEN "done" ELSE "sw_swap"]
    /\ tmo = <<>>
    /\ waits = <<>>
    /\ budget = <<>>
    /\ parks = <<>>
    /\ flag = FALSE
    /\ round = 0
    /\ value = 0
    /\ seen = <<>>
    /\ conv = <<>>
    /\ left = 0
    /\ node = <<>>
    /\ mutex = <<>>
    /\ status = <<>>
    /\ backend = <<>>
    /\ got = <<>>
    /\ event = FALSE

InitW == InitCalls(FALSE)
\* the run of one store_and_wake against waiters that all wait for one value
InitW1 == InitCalls(TRUE)

\* compare_and_wait returns at futex/mod.rs:101 (pc "done", the cell did not
\* hold expected) or leaves its loop at futex/mod.rs:115 (pc "woken").
WCas(t) == CwCas(t, ApiExpected(arg[t], layout), "done") /\ UNCHANGED otherW
WWait(t) == CwWait(t, ApiExpected(arg[t], layout)) /\ UNCHANGED otherW
WSpurious(t) == CwSpurious(t) /\ UNCHANGED otherW
WCheck(t) == CwCheck(t, ApiExpected(arg[t], layout), "woken") /\ UNCHANGED otherW
WSwap(t) == SwSwap(t, arg[t], "done") /\ UNCHANGED otherW
WWake(t) == SwWake(t, "done") /\ UNCHANGED otherW

WaiterStep(t) == WCas(t) \/ WWait(t) \/ WCheck(t)
WakerStep(t) == WSwap(t) \/ WWake(t)

NextW ==
    \/ \E t \in Waiters : WCas(t)
    \/ \E t \in Waiters : WWait(t)
    \/ \E t \in Waiters : WSpurious(t)
    \/ \E t \in Waiters : WCheck(t)
    \/ \E t \in Wakers : WSwap(t)
    \/ \E t \in Wakers : WWake(t)

SpecW == InitW /\ [][NextW]_vars

C1Scenario == OneStore(arg, layout)

\* Threads are scheduled by the operating system: a thread that can take a
\* step eventually takes it.  A spurious return of the adapter is never owed.
FairSpecW ==
    /\ InitW1
    /\ [][NextW]_vars
    /\ \A t \in Waiters : WF_vars(WaiterStep(t))
    /\ \A t \in Wakers : WF_vars(WakerStep(t))

WReturned(t) == pc[t] \in {"done", "woken"}
WSwapped(w) == arg[w] # NoCall /\ pc[w] \in {"sw_wake", "done"}

C2_NoSpuriousReturn ==
    /\ [](\A t \in Waiters : pc[t] = "woken" => \E w \in Wakers : WSwapped(w))
    /\ [][\A t \in Waiters :
            (pc[t] # "woken" /\ pc'[t] = "woken") =>
                cell # ApiExpected(arg[t], layout) \cup HAS_WAITERS(layout)]_vars

\* the adapter has returned to a waiter whose cell nobody has touched
C2_Witness ==
    \E t \in Waiters :
        /\ pc[t] = "cw_check"
        /\ cell = ApiExpected(arg[t], layout) \cup HAS_WAITERS(layout)
        /\ \A w \in Wakers : ~WSwapped(w)

\* t has set or found HAS_WAITERS for its value and has not returned
Registered(t) == pc[t] \in {"cw_wait", "cw_blocked", "cw_check"}

\* C11: the swap of store_and_wake(new) leaves the cell equal to new, every
\* bit of it, and the wake that may follow writes nothing.
C11_StoreWritesNew ==
    [][\A w \in Wakers :
          /\ (pc[w] = "sw_swap" /\ pc'[w] # "sw_swap") => cell' = arg[w]
          /\ (pc[w] = "sw_wake" /\ pc'[w] # "sw_wake") => cell' = cell]_vars

\* store_and_wake has returned after a wake, and the cell, which held
\* another value with HAS_WAITERS, is the new value
C11_Witness ==
    \E w \in Wakers : \E t \in Waiters :
        /\ pc[w] = "done" /\ arg[w] # NoCall /\ cell = arg[w]
        /\ pc[t] = "woken" /\ FreeBits(arg[t], layout) # arg[w]

\* C12: store_and_wake goes on to the adapter's wake exactly when the value
\* it swapped out had HAS_WAITERS, and HAS_WAITERS is in the cell only while
\* some compare_and_wait that set or found it has not returned.
C12_WakeIffHasWaiters ==
    /\ [][\A w \in Wakers :
            /\ (pc[w] = "sw_swap" /\ pc'[w] # "sw_swap")
                  => (pc'[w] = "sw_wake" <=> HAS_WAITERS(layout) \subseteq cell)
            /\ (pc[w] # "sw_wake" /\ pc'[w] = "sw_wake") => pc[w] = "sw_swap"]_vars
    /\ [](HAS_WAITERS(layout) \subseteq cell => \E t \in Waiters : Registered(t))

\* store_and_wake has returned straight from its swap: no waiter has made
\* its compare-exchange yet
C12_Witness ==
    \E w \in Wakers :
        /\ pc[w] = "done" /\ arg[w] # NoCall /\ cell = arg[w]
        /\ \A t \in Waiters : pc[t] = "cw_cas"

\* the argument of t's compare_and_wait has a reserved bit set
Dirty(t) == arg[t] \cap RESERVED_MASK(layout) # {}

C25_NoneLeftQueuedForOldValue ==
    \A t \in Waiters :
        (/\ layout = "64le"
         /\ pc[t] = "cw_blocked"
         /\ \A w \in Wakers : pc[w] = "done")
            => FreeBits(cell, layout) = ApiExpected(arg[t], layout)

\* the bits of the word that the 32-bit window at the cell's address shows
WindowBits(l) == {b \in 0 .. (WordBits(l) - 1) : Window({b}, l) # {}}

\* C26: on each layout HAS_WAITERS is one reserved bit inside the 32-bit
\* window at the cell's address, and the compare value handed to the adapter
\* for expected is the content of the window of a cell that holds
\* expected | HAS_WAITERS.
C26_FlagInsideWindow ==
    /\ Cardinality(HAS_WAITERS(layout)) = 1
    /\ HAS_WAITERS(layout) \subseteq RESERVED_MASK(layout)
    /\ HAS_WAITERS(layout) \subseteq WindowBits(layout)
    /\ Cardinality(WindowBits(layout)) = 32
    /\ \A e \in UserValues(layout) :
          Window(e \cup HAS_WAITERS(layout), layout) = Compare32(e, layout)
    /\ \A t \in Waiters :
          cell = ApiExpected(arg[t], layout) \cup HAS_WAITERS(layout) =>
              Window(cell, layout) = Compare32(ApiExpected(arg[t], layout), layout)

\* on 64-bit big-endian a waiter for a value other than 0 is queued in the
\* adapter, on the window that holds its value and HAS_WAITERS
C26_Witness ==
    /\ layout = "64be"
    /\ \E t \in Waiters :
          /\ pc[t] = "cw_blocked"
          /\ ApiExpected(arg[t], layout) # {}
          /\ cell = ApiExpected(arg[t], layout) \cup HAS_WAITERS(layout)

\* C21 (the claim as stated): in every state, also between the swap and the
\* wake of a store_and_wake, a cell without HAS_WAITERS has no thread queued
\* in the adapter.
C21_NoneQueuedWhenClear ==
    HAS_WAITERS(layout) \subseteq cell \/ \A t \in Waiters : pc[t] # "cw_blocked"

\* C21 (amended): while HAS_WAITERS is clear a thread is queued in the
\* adapter only between the swap of a store_and_wake and its wake.
C21_QueuedOnlyBeforeWake ==
    \/ HAS_WAITERS(layout) \subseteq cell
    \/ \A t \in Waiters : pc[t] # "cw_blocked"
    \/ \E w \in Wakers : pc[w] = "sw_wake"

\* store_and_wake has swapped HAS_WAITERS out and a waiter is still queued
C21_Witness ==
    /\ ~(HAS_WAITERS(layout) \subseteq cell)
    /\ \E t \in Waiters : pc[t] = "cw_blocked"
    /\ \E w \in Wakers : pc[w] = "sw_wake"

-----------------------------------------------------------------------------
(* One Parker: NParkers threads call park, budget[t] times each with any   *)
(* timeout of Timeouts; NUnparkers threads call unpark once, at any time.  *)

\* A Parker is parked by the thread that owns it; thread 2 is the second
\* caller of park that the documentation of Parker::park speaks of.
Parkers == {1, 2}
Unparkers == 3 .. (2 + NUnparkers)

RECURSIVE Sum(_, _)
Sum(f, S) == IF S = {} THEN 0
             ELSE LET x == CHOOSE y \in S : TRUE IN f[x] + Sum(f, S \ {x})

otherP == <<layout, variant, platform, status, backend, got, event, cell, arg, budget, flag, round, value, seen, conv, left, node, mutex>>

\* the park calls each thread is going to make: at most MaxParks in all, or
\* one call by one thread
Budgets(one) ==
    {b \in [Parkers -> 0 .. MaxParks] :
        IF one THEN \E t \in Parkers : b[t] = 1 /\ \A u \in Parkers \ {t} : b[u] = 0
        ELSE Sum(b, Parkers) <= MaxParks}

\* Parker::new(): imp::Parker::new(0)
InitBudget(one) ==
    /\ layout = "64le"
    /\ variant \in Variants
    /\ platform \in Platforms
    /\ cell = {}
    /\ parker = 0
    /\ pc = [t \in Parkers \cup Unparkers |-> IF t \in Parkers THEN "idle" ELSE "up_swap"]
    /\ arg = <<>>
    /\ tmo = [t \in Parkers |-> NoTimeout]
    /\ waits = [t \in Parkers |-> 0]
    /\ budget \in Budgets(one)
    /\ parks = [t \in Parkers |-> 0]
    /\ flag = FALSE
    /\ round = 0
    /\ value = 0
    /\ seen = <<>>
    /\ conv = <<>>
    /\ left = 0
    /\ node = <<>>
    /\ mutex = <<>>
    /\ status = <<>>
    /\ backend = <<>>
    /\ got = <<>>
    /\ event = FALSE

InitP == InitBudget(FALSE)
\* the run of one park call
InitP1 == InitBudget(TRUE)

\* Parker::park(timeout): imp::park(&self.inner, timeout)
PStart(t) ==
    /\ pc[t] = "idle"
    /\ parks[t] < budget[t]
    /\ \E timeout \in Timeouts : tmo' = [tmo EXCEPT ![t] = timeout]
    /\ parks' = [parks EXCEPT ![t] = @ + 1]
    /\ waits' = [waits EXCEPT ![t] = 0]
    /\ pc' = [pc EXCEPT ![t] = "pk_cas"]
    /\ UNCHANGED <<parker, otherP>>

PCas(t) == PkCas(t) /\ UNCHANGED <<tmo, parks, otherP>>
PConsume(t) == PkConsume(t, "idle") /\ UNCHANGED <<tmo, parks, otherP>>
PWait(t) == PkWait(t) /\ UNCHANGED <<tmo, parks, otherP>>
PSpurious(t) == PkSpurious(t) /\ UNCHANGED <<tmo, parks, otherP>>
PTimeout(t) == PkTimeout(t) /\ UNCHANGED <<tmo, parks, otherP>>
PWoke(t) == PkWoke(t, "idle") /\ UNCHANGED <<tmo, parks, otherP>>
PSwap(u) == UpSwap(u, "done") /\ UNCHANGED <<tmo, parks, otherP>>
PWake(u) == UpWake(u, "done") /\ UNCHANGED <<tmo, parks, otherP>>

\* the steps a thread inside park takes when scheduled (or when its timeout expires)
ParkStep(t) == PCas(t) \/ PConsume(t) \/ PWait(t) \/ PTimeout(t) \/ PWoke(t)

NextP ==
    \/ \E t \in Parkers : PStart(t)
    \/ \E t \in Parkers : PCas(t)
    \/ \E t \in Parkers : PConsume(t)
    \/ \E t \in Parkers : PWait(t)
    \/ \E t \in Parkers : PSpurious(t)
    \/ \E t \in Parkers : PTimeout(t)
    \/ \E t \in Parkers : PWoke(t)
    \/ \E u \in Unparkers : PSwap(u)
    \/ \E u \in Unparkers : PWake(u)

SpecP == InitP /\ [][NextP]_vars

\* t is the only thread that parks in this run
Sole(t) == \A u \in Parkers \ {t} : budget[u] = 0
\* A thread inside park, and an unpark past its swap, go on; whether and when
\* park and unpark are called is up to the caller, and a spurious return of
\* the adapter is never owed.
FairSpecP ==
    /\ InitP1
    /\ [][NextP]_vars
    /\ \A t \in Parkers : WF_vars(ParkStep(t))
    /\ \A u \in Unparkers : WF_vars(PWake(u))

InPark(t) == pc[t] \in {"pk_cas", "pk_consume", "pk_wait", "pk_blocked", "pk_woke"}
\* u's unpark has made its swap
Swapped(u) == pc[u] \in {"up_wake", "done"}
\* this step is t's return from park
Returns(t) == InPark(t) /\ pc'[t] = "idle"

\* C3: park(None) of the only parking thread returns only by consuming a
\* notification: the step that returns finds NOTIFIED, which only an unpark
\* writes; a return of the adapter alone does not end park.
C3_ParkNoneNeedsUnpark ==
    /\ [](parker = NOTIFIED => \E u \in Unparkers : Swapped(u))
    /\ [][\A t \in Parkers :
            (Sole(t) /\ ~tmo[t].some /\ Returns(t)) => parker = NOTIFIED]_vars

\* park(None) is back in its wait after the adapter returned with no unpark
C3_Witness ==
    \E t \in Parkers :
        /\ Sole(t) /\ ~tmo[t].some
        /\ pc[t] = "pk_blocked" /\ waits[t] >= 2
        /\ \A u \in Unparkers : ~Swapped(u)

\* C4: one thread makes one park(None) call; once an unpark has made its
\* swap, before or at any point during the park, the park returns.
C4_ParkEventuallyReturns ==
    \A t \in Parkers :
        (Sole(t) /\ budget[t] = 1) =>
            ((InPark(t) /\ ~tmo[t].some /\ \E u \in Unparkers : Swapped(u))
                ~> pc[t] = "idle")

\* park(None) has returned after a spurious wake and a re-park
C4_Witness ==
    \E t \in Parkers :
        /\ Sole(t) /\ budget[t] = 1 /\ ~tmo[t].some
        /\ parks[t] = 1 /\ pc[t] = "idle" /\ waits[t] >= 2
        /\ \E u \in Unparkers : Swapped(u)

C6_ParkLeavesNotParked ==
    [][/\ \A t \in Parkers : Returns(t) => parker' = NOT_PARKED
       /\ (parker = NOT_PARKED /\ parker' # NOT_PARKED) =>
             \/ \E u \in Unparkers : pc[u] = "up_swap" /\ pc'[u] # "up_swap"
             \/ \E t \in Parkers : pc[t] = "pk_cas" /\ pc'[t] = "pk_wait"
      ]_vars

\* park has returned on each of its paths: a pending notification consumed
\* (no wait), and a wait that ended
C6_Witness ==
    \E t \in Parkers :
        /\ parks[t] = 2 /\ pc[t] = "idle" /\ waits[t] = 0
        /\ parker = NOT_PARKED

\* C14: an unpark that finds the Parker NOTIFIED leaves it NOTIFIED, returns
\* at its swap and wakes nobody; the Parker becomes NOTIFIED by an unpark's
\* swap only; a park(None) of the only parking thread returns by taking the
\* one notification away, so that the next return needs a further unpark.
C14_UnparkIdempotent ==
    [][/\ \A u \in Unparkers :
            (pc[u] = "up_swap" /\ parker = NOTIFIED /\ pc'[u] # pc[u]) =>
                /\ parker' = NOTIFIED
                /\ pc'[u] = "done"
                /\ \A t \in Parkers : pc'[t] = pc[t]
       /\ (parker # NOTIFIED /\ parker' = NOTIFIED) =>
                \E u \in Unparkers : pc[u] = "up_swap" /\ pc'[u] # pc[u]
       /\ \A t \in Parkers :
            (Sole(t) /\ ~tmo[t].some /\ Returns(t)) =>
                (parker = NOTIFIED /\ parker' = NOT_PARKED)
      ]_vars

\* every unpark has returned, one park has returned and the second
\* park(None) of the thread is queued in the adapter: the unparks together
\* released one park
C14_Witness ==
    \E t \in Parkers :
        /\ Sole(t) /\ parks[t] = 2 /\ ~tmo[t].some
        /\ pc[t] = "pk_blocked" /\ parker = PARKED
        /\ \A u \in Unparkers : pc[u] = "done"

TooLarge(t) ==
    tmo[t].some /\ ~IsZero(tmo[t]) /\ WaitsForever(platform, tmo[t], layout)

\* C16 (the claim as stated): a timeout of u64::MAX seconds is converted to
\* the adapter's "no timeout", and a park with a timeout that is too large
\* returns as park(None) does: only by the step that finds NOTIFIED, going
\* back to wait after any other return of the adapter.
C16_OverflowActsAsNone ==
    /\ [](\A t \in Parkers : tmo[t] = SomeTimeout(U64, 0) => TooLarge(t))
    /\ [][\A t \in Parkers :
            (Sole(t) /\ TooLarge(t) /\ Returns(t)) => parker = NOTIFIED]_vars

\* C20: the Parker holds NOT_PARKED, PARKED or NOTIFIED in every reachable
\* state; PARKED and NOTIFIED are never combined.
C20_StateInRange ==
    parker \in {NOT_PARKED, PARKED, NOTIFIED}

\* an unpark has swapped NOTIFIED over PARKED while the parked thread is
\* still queued in the adapter
C20_Witness ==
    /\ parker = NOTIFIED
    /\ \E t \in Parkers : pc[t] = "pk_blocked"
    /\ \E u \in Unparkers : pc[u] = "up_wake"

\* C22: the swap of unpark leaves the Parker NOTIFIED and goes on to the
\* adapter's wake exactly when it found PARKED; the wake writes nothing; a
\* step that makes the Parker NOT_PARKED or PARKED is a step of a thread
\* inside park and of no unpark.
C22_UnparkOnlyNotifies ==
    [][/\ \A u \in Unparkers :
            /\ (pc[u] = "up_swap" /\ pc'[u] # pc[u]) =>
                  /\ parker' = NOTIFIED
                  /\ pc'[u] = "up_wake" <=> parker = PARKED
            /\ (pc[u] = "up_wake" /\ pc'[u] # pc[u]) => parker' = parker
            /\ (pc[u] # "up_wake" /\ pc'[u] = "up_wake") => pc[u] = "up_swap"
       /\ (parker' # parker /\ parker' \in {NOT_PARKED, PARKED}) =>
            /\ \A u \in Unparkers : pc'[u] = pc[u]
            /\ \E t \in Parkers :
                  pc[t] \in {"pk_cas", "pk_consume", "pk_woke"} /\ pc'[t] # pc[t]
      ]_vars

\* an unpark that found PARKED has woken the parked thread and returned, and
\* the woken thread has made the Parker NOT_PARKED
C22_Witness ==
    \E t \in Parkers : \E u \in Unparkers :
        /\ Sole(t) /\ parks[t] = 1 /\ ~tmo[t].some
        /\ pc[t] = "idle" /\ waits[t] = 1 /\ parker = NOT_PARKED
        /\ pc[u] = "done"
        /\ \A v \in Unparkers \ {u} : pc[v] = "up_swap"

\* C7 (the claim as stated): the first compare_exchange of a park made while
\* another thread is inside park, past its own compare_exchange, panics.
Inside(u) ==
    \/ pc[u] \in {"pk_wait", "pk_blocked", "pk_woke"}
    \/ pc[u] = "pk_cas" /\ waits[u] > 0
C7_SecondParkPanics ==
    [][\A t \in Parkers : \A u \in Parkers \ {t} :
          (pc[t] = "pk_cas" /\ waits[t] = 0 /\ Inside(u) /\ pc'[t] # pc[t])
              => pc'[t] = "panicked"]_vars

\* C8 (the claim as stated): a park call with a zero timeout gets no further
\* than its entry: it panics, it does not go on to the compare_exchange and
\* the adapter wait, and it does not return.
C8_ZeroTimeoutPanics ==
    \A t \in Parkers :
        (parks[t] > 0 /\ IsZero(tmo[t])) => pc[t] \in {"pk_cas", "panicked"}

-----------------------------------------------------------------------------
(* The unpark_ordering test (lib.rs): the main thread runs the rounds, and   *)
(* the thread it spawns in round r is thread 2 + r.                          *)

MaxRounds == 2     \* rounds of the test that are run (TEST_ROUNDS in the source)

Main == 1
Spawned == 3 .. (2 + MaxRounds)

otherT == <<layout, variant, platform, status, backend, got, event, cell, arg, tmo, budget, value, seen, conv, left, node, mutex>>

InitT ==
    /\ layout = "64le"
    /\ variant \in Variants
    /\ platform \in Platforms
    /\ cell = {}
    /\ parker = 0
    /\ pc = [t \in {Main} \cup Spawned |-> IF t = Main THEN "t_spawn" ELSE "unborn"]
    /\ arg = <<>>
    /\ tmo = [t \in {Main} |-> NoTimeout]
    /\ waits = [t \in {Main} |-> 0]
    /\ budget = <<>>
    /\ parks = [t \in Spawned |-> 0]
    /\ flag = FALSE
    /\ round = 0
    /\ value = 0
    /\ seen = <<>>
    /\ conv = <<>>
    /\ left = 0
    /\ node = <<>>
    /\ mutex = <<>>
    /\ status = <<>>
    /\ backend = <<>>
    /\ got = <<>>
    /\ event = FALSE

\* for _ in 0..TEST_ROUNDS { spawn(..); ..
TSpawn ==
    /\ pc[Main] = "t_spawn"
    /\ round < MaxRounds
    /\ round' = round + 1
    /\ pc' = [pc EXCEPT ![Main] = "t_check", ![2 + round'] = "up_swap"]
    /\ parks' = [parks EXCEPT ![2 + round'] = 1]
    /\ UNCHANGED <<parker, waits, flag, otherT>>

\* while !FLAG.load(Relaxed) { PARKER.park(None); }
TCheck ==
    /\ pc[Main] = "t_check"
    /\ pc' = [pc EXCEPT ![Main] = IF flag THEN "t_clear" ELSE "pk_cas"]
    /\ waits' = [waits EXCEPT ![Main] = 0]
    /\ UNCHANGED <<parker, parks, flag, round, otherT>>

\* FLAG.store(false, Relaxed); and the end of the round
TClear ==
    /\ pc[Main] = "t_clear"
    /\ flag' = FALSE
    /\ pc' = [pc EXCEPT ![Main] = IF round < MaxRounds THEN "t_spawn" ELSE "finished"]
    /\ UNCHANGED <<parker, waits, parks, round, otherT>>

TCas == PkCas(Main) /\ UNCHANGED <<parks, flag, round, otherT>>
TConsume == PkConsume(Main, "t_check") /\ UNCHANGED <<parks, flag, round, otherT>>
TWait == PkWait(Main) /\ UNCHANGED <<parks, flag, round, otherT>>
TSpurious == PkSpurious(Main) /\ UNCHANGED <<parks, flag, round, otherT>>
TWoke == PkWoke(Main, "t_check") /\ UNCHANGED <<parks, flag, round, otherT>>

\* where an unpark of the spawned thread returns to: parks[w] counts the
\* unpark calls it has begun
AfterUnpark(w) == IF parks[w] = 1 THEN "t_flag" ELSE "done"

\* PARKER.unpark(), the first and the second
TUnparkSwap(w) == UpSwap(w, AfterUnpark(w)) /\ UNCHANGED <<parks, flag, round, otherT>>
TUnparkWake(w) == UpWake(w, AfterUnpark(w)) /\ UNCHANGED <<parks, flag, round, otherT>>

\* mutant: the spawned thread makes no second unpark
TSetFlagOnly(w) ==
    /\ pc[w] = "t_flag"
    /\ flag' = TRUE
    /\ pc' = [pc EXCEPT ![w] = "done"]
    /\ parks' = [parks EXCEPT ![w] = 2]
    /\ UNCHANGED <<parker, waits, round, otherT>>

\* FLAG.store(true, Relaxed); then on to the second unpark
TSetFlag(w) ==
    /\ pc[w] = "t_flag"
    /\ flag' = TRUE
    /\ pc' = [pc EXCEPT ![w] = "up_swap"]
    /\ parks' = [parks EXCEPT ![w] = 2]
    /\ UNCHANGED <<parker, waits, round, otherT>>

MainStep == TSpawn \/ TCheck \/ TClear \/ TCas \/ TConsume \/ TWait \/ TWoke
SpawnedStep(w) == TUnparkSwap(w) \/ TUnparkWake(w) \/ TSetFlag(w)

NextT ==
    \/ TSpawn
    \/ TCheck
    \/ TClear
    \/ TCas
    \/ TConsume
    \/ TWait
    \/ TSpurious
    \/ TWoke
    \/ \E w \in Spawned : TUnparkSwap(w)
    \/ \E w \in Spawned : TUnparkWake(w)
    \/ \E w \in Spawned : TSetFlag(w)

SpecT == InitT /\ [][NextT]_vars

\* Every thread of the test that can take a step eventually takes it; a
\* spurious return of the adapter is never owed.
FairSpecT ==
    /\ SpecT
    /\ WF_vars(MainStep)
    /\ \A w \in Spawned : WF_vars(SpawnedStep(w))

\* C9: the main thread gets through every round of unpark_ordering (no park
\* of it blocks for ever and none panics), whatever the spawned threads of
\* earlier rounds still have to do, and whenever its while loop has ended
\* FLAG is set.
C9_UnparkOrderingFinishes ==
    /\ <>(pc[Main] = "finished")
    /\ [](pc[Main] # "panicked")
    /\ [](pc[Main] = "t_clear" => flag)

\* the last round is over while the second unpark of the first round's
\* thread is still to come
C9_Witness ==
    /\ pc[Main] = "finished" /\ round = MaxRounds
    /\ pc[3] = "up_swap" /\ parks[3] = 2

-----------------------------------------------------------------------------
(* The OnceCell of examples/test_synchronization.rs: NThreads threads call   *)
(* get_or_init on one cell, thread t with the payload t.                     *)

NThreads == 3      \* threads racing for the cell (N_THREADS in the source)

Racers == 1 .. NThreads

INCOMPLETE(l) == UserValue(0, l)
RUNNING(l) == UserValue(1, l)
COMPLETE(l) == UserValue(2, l)

otherO == <<layout, variant, platform, status, backend, got, event, parker, arg, tmo, budget, parks, flag, round, conv, left, node, mutex>>

\* OnceCell::new()
InitO ==
    /\ layout \in Layouts
    /\ variant \in Variants
    /\ platform = "linux"
    /\ cell = INCOMPLETE(layout)
    /\ parker = 0
    /\ pc = [t \in Racers |-> "oc_get"]
    /\ arg = <<>>
    /\ tmo = <<>>
    /\ waits = <<>>
    /\ budget = <<>>
    /\ parks = <<>>
    /\ flag = FALSE
    /\ round = 0
    /\ value = 0
    /\ seen = [t \in Racers |-> 0]
    /\ conv = <<>>
    /\ left = 0
    /\ node = <<>>
    /\ mutex = <<>>
    /\ status = <<>>
    /\ backend = <<>>
    /\ got = <<>>
    /\ event = FALSE

\* get_or_init: if let Some(val) = self.get() { return val; } self.init(value)
OGet(t) ==
    /\ pc[t] = "oc_get"
    /\ IF cell = COMPLETE(layout) /\ value # 0
       THEN /\ seen' = [seen EXCEPT ![t] = value]
            /\ pc' = [pc EXCEPT ![t] = "done"]
       ELSE /\ pc' = [pc EXCEPT ![t] = "oc_load"]
            /\ UNCHANGED seen
    /\ UNCHANGED <<cell, waits, value, otherO>>

\* the match of init on the state it holds: where the thread goes next
Match(state, l) ==
    IF state = COMPLETE(l) THEN "oc_unwrap"
    ELSE IF state = INCOMPLETE(l) THEN "oc_cas"
    ELSE IF FreeBits(state, l) = RUNNING(l) THEN "cw_cas"
    ELSE "panicked"

\* let mut state = self.state.load(SeqCst), at the start of init and after
\* compare_and_wait
OLoad(t) ==
    /\ pc[t] = "oc_load"
    /\ pc' = [pc EXCEPT ![t] = Match(cell, layout)]
    /\ UNCHANGED <<cell, waits, value, seen, otherO>>

\* mutant: the state is stored, not compared and swapped
OCasAlwaysWins(t) ==
    /\ pc[t] = "oc_cas"
    /\ cell' = RUNNING(layout)
    /\ pc' = [pc EXCEPT ![t] = "oc_write"]
    /\ UNCHANGED <<waits, value, seen, otherO>>

\* compare_and_swap(INCOMPLETE, RUNNING, SeqCst); on failure the match is
\* made again on the value found
OCas(t) ==
    /\ pc[t] = "oc_cas"
    /\ IF cell = INCOMPLETE(layout)
       THEN /\ cell' = RUNNING(layout)
            /\ pc' = [pc EXCEPT ![t] = "oc_write"]
       ELSE /\ cell' = cell
            /\ pc' = [pc EXCEPT ![t] = Match(cell, layout)]
    /\ UNCHANGED <<waits, value, seen, otherO>>

\* self.value.get().write(Some(value))
OWrite(t) ==
    /\ pc[t] = "oc_write"
    /\ value' = t
    /\ pc' = [pc EXCEPT ![t] = "sw_swap"]
    /\ UNCHANGED <<cell, waits, seen, otherO>>

\* self.state.store_and_wake(COMPLETE)
OSwap(t) == SwSwap(t, COMPLETE(layout), "oc_assert") /\ UNCHANGED <<value, seen, otherO>>
OWake(t) == SwWake(t, "oc_assert") /\ UNCHANGED <<value, seen, otherO>>

\* assert!(self.state.load(SeqCst) & !RESERVED_MASK == COMPLETE)
OAssert(t) ==
    /\ pc[t] = "oc_assert"
    /\ pc' = [pc EXCEPT ![t] =
                IF FreeBits(cell, layout) = COMPLETE(layout) THEN "oc_unwrap" ELSE "panicked"]
    /\ UNCHANGED <<cell, waits, value, seen, otherO>>

\* self.state.compare_and_wait(RUNNING)
OCwCas(t) ==
    CwCas(t, ApiExpected(RUNNING(layout), layout), "oc_load") /\ UNCHANGED <<value, seen, otherO>>
OCwWait(t) ==
    CwWait(t, ApiExpected(RUNNING(layout), layout)) /\ UNCHANGED <<value, seen, otherO>>
OCwSpurious(t) == CwSpurious(t) /\ UNCHANGED <<value, seen, otherO>>
OCwCheck(t) ==
    CwCheck(t, ApiExpected(RUNNING(layout), layout), "oc_load") /\ UNCHANGED <<value, seen, otherO>>

\* self.get().unwrap() at the end of init
OUnwrap(t) ==
    /\ pc[t] = "oc_unwrap"
    /\ IF cell = COMPLETE(layout) /\ value # 0
       THEN /\ seen' = [seen EXCEPT ![t] = value]
            /\ pc' = [pc EXCEPT ![t] = "done"]
       ELSE /\ pc' = [pc EXCEPT ![t] = "panicked"]
            /\ UNCHANGED seen
    /\ UNCHANGED <<cell, waits, value, otherO>>

RacerStep(t) ==
    \/ OGet(t) \/ OLoad(t) \/ OCas(t) \/ OWrite(t) \/ OSwap(t) \/ OWake(t)
    \/ OAssert(t) \/ OCwCas(t) \/ OCwWait(t) \/ OCwCheck(t) \/ OUnwrap(t)

NextO ==
    \/ \E t \in Racers : OGet(t)
    \/ \E t \in Racers : OLoad(t)
    \/ \E t \in Racers : OCas(t)
    \/ \E t \in Racers : OWrite(t)
    \/ \E t \in Racers : OSwap(t)
    \/ \E t \in Racers : OWake(t)
    \/ \E t \in Racers : OAssert(t)
    \/ \E t \in Racers : OCwCas(t)
    \/ \E t \in Racers : OCwWait(t)
    \/ \E t \in Racers : OCwSpurious(t)
    \/ \E t \in Racers : OCwCheck(t)
    \/ \E t \in Racers : OUnwrap(t)

SpecO == InitO /\ [][NextO]_vars

\* Every thread that can take a step eventually takes it; a spurious return
\* of the adapter is never owed.
FairSpecO ==
    /\ SpecO
    /\ \A t \in Racers : WF_vars(RacerStep(t))

\* t has won the compare_and_swap of init
Won(t) == pc[t] \in {"oc_write", "sw_swap", "sw_wake", "oc_assert"} \/ value = t
InCompareAndWait(t) == pc[t] \in {"cw_cas", "cw_wait", "cw_blocked", "cw_check"}

\* C10: among the threads racing on one cell at most one wins the
\* compare_and_swap and the payload is written once; no assertion and no
\* unwrap fails; a compare_and_wait(RUNNING) returns only with the cell
\* COMPLETE; a thread that has returned from get_or_init has read the
\* winner's payload; and every thread returns.
C10_RaceToInitialize ==
    /\ [](Cardinality({t \in Racers : Won(t)}) <= 1)
    /\ [][value' # value => (value = 0 /\ \E t \in Racers : pc[t] = "oc_write" /\ value' = t)]_vars
    /\ [](\A t \in Racers : pc[t] # "panicked")
    /\ [][\A t \in Racers :
            (InCompareAndWait(t) /\ ~InCompareAndWait(t)')
                => (pc'[t] = "oc_load" /\ cell = COMPLETE(layout))]_vars
    /\ [](\A t \in Racers :
            pc[t] = "done" => (cell = COMPLETE(layout) /\ value # 0 /\ seen[t] = value))
    /\ <>(\A t \in Racers : pc[t] = "done")

\* the winner has stored COMPLETE, woken the waiters and returned; one thread
\* is back from the adapter inside compare_and_wait, another has returned
\* with the winner's payload
C10_Witness ==
    \E t, u, v \in Racers :
        /\ value = t /\ pc[t] = "done" /\ cell = COMPLETE(layout)
        /\ pc[u] = "cw_check"
        /\ v # t /\ pc[v] = "done" /\ seen[v] = t

-----------------------------------------------------------------------------
(* The timeout conversions of the adapters, applied to one Option<Duration> *)

MaxSecs == 2

\* subsec_nanos() at and around the granularities
Nanos == {0, 1, 99, 100, 101, 999, 1000, 1001, 999999, 1000000, 1000001, 999999999}
Durations ==
    {SomeTimeout(SecsOf(s), n) : s \in 0 .. MaxSecs, n \in Nanos}
        \cup {SomeTimeout(U64, n) : n \in {0, 999999999}}

\* a converted count; NoCount is None of an Option, and the DWORD INFINITE
Count(c) == [some |-> TRUE, val |-> c]
NoCount == [some |-> FALSE, val |-> 0]
INFINITE == NoCount

\* mutant: nanoseconds are rounded down to milliseconds
convert_timeout_ms_truncates(timeout) ==
    IF ~timeout.some THEN INFINITE
    ELSE IF timeout.secs \ (0 .. 22) # {} THEN INFINITE
    ELSE Count(NatOf(timeout.secs) * 1000 + (timeout.nanos \div 1000000))

\* futex/windows.rs convert_timeout_ms: milliseconds, rounded up; INFINITE
\* for no timeout, for an overflow of the u64 product and for more than
\* DWORD::max_value() = 4294967295 ms (every duration of 2^23 s and more)
convert_timeout_ms(timeout) ==
    IF ~timeout.some THEN INFINITE
    ELSE IF timeout.secs \ (0 .. 22) # {} THEN INFINITE
    ELSE LET secs == NatOf(timeout.secs)
             ms == (timeout.nanos + 999999) \div 1000000
         IN  IF \/ secs > 4294967
                \/ (secs = 4294967 /\ ms > 295)
             THEN INFINITE
             ELSE Count(secs * 1000 + ms)

\* imp/windows.rs convert_timeout_100ns: minus the number of 100 ns units,
\* rounded up; None for no timeout, for secs > i64::max_value() and for an
\* overflow of the i64 product (every duration of 2^40 s and more)
convert_timeout_100ns(timeout) ==
    IF ~timeout.some THEN NoCount
    ELSE IF timeout.secs \ (0 .. 39) # {} THEN NoCount
    ELSE Count(NatOf(timeout.secs) * (-10000000) - ((timeout.nanos + 99) \div 100))

InitC ==
    /\ layout = "64le"
    /\ variant = "mod"
    /\ platform = "linux"
    /\ cell = {}
    /\ parker = 0
    /\ pc = [t \in {Main} |-> "convert"]
    /\ arg = <<>>
    /\ tmo \in [{Main} -> Durations \cup {NoTimeout}]
    /\ waits = <<>>
    /\ budget = <<>>
    /\ parks = <<>>
    /\ flag = FALSE
    /\ round = 0
    /\ value = 0
    /\ seen = <<>>
    /\ conv = <<>>
    /\ left = 0
    /\ node = <<>>
    /\ mutex = <<>>
    /\ status = <<>>
    /\ backend = <<>>
    /\ got = <<>>
    /\ event = FALSE

otherC == <<layout, variant, platform, status, backend, got, event, cell, parker, arg, tmo, waits, budget, parks,
            flag, round, value, seen, left, node, mutex>>

\* Futex::wait of futex/windows.rs: WaitOnAddress(.., convert_timeout_ms(timeout))
CMs ==
    /\ pc[Main] = "convert"
    /\ conv' = [unit |-> "ms", out |-> convert_timeout_ms(tmo[Main])]
    /\ pc' = [pc EXCEPT ![Main] = "done"]
    /\ UNCHANGED otherC

\* Futex::wait of futex/darwin.rs: ulock_wait(.., convert_timeout_us(timeout))
CUs ==
    /\ pc[Main] = "convert"
    /\ conv' = [unit |-> "us", out |-> Count(convert_timeout_us(tmo[Main]))]
    /\ pc' = [pc EXCEPT ![Main] = "done"]
    /\ UNCHANGED otherC

\* wait_for_keyed_event of imp/windows.rs: convert_timeout_100ns(timeout)
C100ns ==
    /\ pc[Main] = "convert"
    /\ conv' = [unit |-> "100ns", out |-> convert_timeout_100ns(tmo[Main])]
    /\ pc' = [pc EXCEPT ![Main] = "done"]
    /\ UNCHANGED otherC

NextC == CMs \/ CUs \/ C100ns

SpecC == InitC /\ [][NextC]_vars

\* the duration converted is below 2^13 s, which overflows none of the units
Fits(d) == d.some /\ d.secs \subseteq 0 .. 12 /\ NatOf(d.secs) <= 4293
\* units in a second, and nanoseconds in a unit
PerSecond(unit) == IF unit = "ms" THEN 1000 ELSE IF unit = "us" THEN 1000000 ELSE 10000000
Granularity(unit) == IF unit = "ms" THEN 1000000 ELSE IF unit = "us" THEN 1000 ELSE 100
\* the count c of units handed to the kernel
Magnitude(c) == IF c.unit = "100ns" THEN 0 - c.out.val ELSE c.out.val
\* d <= c * g < d + g, with the whole seconds taken off on both sides
RoundsUp(d, c) ==
    LET over == (Magnitude(c) - NatOf(d.secs) * PerSecond(c.unit)) * Granularity(c.unit)
                    - d.nanos
    IN  c.out.some /\ 0 <= over /\ over < Granularity(c.unit)
Converted == pc[Main] = "done"

\* C17 (the claim as stated): every conversion of a duration that does not
\* overflow rounds up, d <= c * g < d + g, a nonzero duration is not
\* converted to 0, and the value for Keyed Events is negative.
C17_RoundsUpNegative ==
    (Converted /\ Fits(tmo[Main])) =>
        /\ RoundsUp(tmo[Main], conv)
        /\ ~IsZero(tmo[Main]) => Magnitude(conv) # 0
        /\ conv.unit = "100ns" => conv.out.val < 0

\* C17 (amended): every conversion of a duration that does not overflow
\* rounds up, d <= c * g < d + g, a nonzero duration is not converted to 0,
\* and the value for Keyed Events is negative for a nonzero duration and 0
\* for the zero duration.
C17_RoundsUp ==
    (Converted /\ Fits(tmo[Main])) =>
        /\ RoundsUp(tmo[Main], conv)
        /\ ~IsZero(tmo[Main]) => Magnitude(conv) # 0
        /\ conv.unit = "100ns" =>
              IF IsZero(tmo[Main]) THEN conv.out.val = 0 ELSE conv.out.val < 0

\* 1 s and 1 ns has become 1001 ms
C17_Witness ==
    /\ Converted /\ conv.unit = "ms"
    /\ tmo[Main] = SomeTimeout(SecsOf(1), 1)
    /\ conv.out = Count(1001)

-----------------------------------------------------------------------------
(* Waiters on Windows (imp/windows.rs): NWaiters threads call              *)
(* compare_and_wait and NWakers threads call store_and_wake on one cell;   *)
(* platform is the Backend that BACKEND.get() returns, "wait"              *)
(* (WaitOnAddress) or "keyed" (NT Keyed Events).                           *)

ReleaseCap == 3

Backends == {"wait", "keyed"}

\* imp/windows.rs:49  const HAS_WAITERS: usize = 0x1
WIN_HAS_WAITERS == {0}

\* w + 1 on a word of the layout's width
Succ(w, l) ==
    LET z == CHOOSE i \in 0 .. WordBits(l) :
                 i \notin w /\ \A j \in 0 .. (i - 1) : j \in w
    IN  ((w \ (0 .. (z - 1))) \cup {z}) \cap (0 .. (WordBits(l) - 1))

\* 0..wake_count, the iterations of the loop of release_keyed_events; a
\* count above ReleaseCap is cut down to ReleaseCap iterations
Iterations(w) ==
    IF w = {} THEN 0
    ELSE IF w \ (0 .. 12) # {} THEN ReleaseCap
    ELSE IF NatOf(w) > ReleaseCap THEN ReleaseCap ELSE NatOf(w)

otherK == <<layout, variant, platform, status, backend, got, event, parker, arg, tmo, waits, budget, parks, flag,
            round, value, seen, conv, node, mutex>>

\* imp/windows.rs:51-54  the load, and the return when the free bits differ
KLoad(t, compare) ==
    /\ pc[t] = "k_load"
    /\ pc' = [pc EXCEPT ![t] =
                IF FreeBits(cell, layout) # compare THEN "done"
                ELSE IF platform = "wait" THEN "k_cas" ELSE "k_inc"]
    /\ UNCHANGED <<cell, left>>

\* imp/windows.rs:57-60  Backend::Wait:
\* compare_and_swap(compare, compare | HAS_WAITERS, Relaxed)
KCas(t, compare) ==
    /\ pc[t] = "k_cas"
    /\ cell' = IF cell = compare THEN compare \cup WIN_HAS_WAITERS ELSE cell
    /\ pc' = [pc EXCEPT ![t] =
                IF FreeBits(cell, layout) # compare THEN "done" ELSE "k_wait"]
    /\ UNCHANGED left

\* mutant: the waiter is counted in the lowest free bit
KIncFree(t, compare) ==
    /\ pc[t] = "k_inc"
    /\ IF FreeBits(cell, layout) # compare
       THEN /\ pc' = [pc EXCEPT ![t] = "done"]
            /\ UNCHANGED cell
       ELSE /\ cell' = (cell \ {RESERVED_BITS(layout)})
                           \cup ({RESERVED_BITS(layout)} \ cell)
            /\ pc' = [pc EXCEPT ![t] = "k_wait"]
    /\ UNCHANGED left

\* imp/windows.rs:73-81  Backend::Keyed: the loop around
\* compare_exchange_weak(current, current + 1).  The exchange succeeds on
\* the value it has just compared; a failure hands back the value of the
\* cell, on which the free bits are tested.
KInc(t, compare) ==
    /\ pc[t] = "k_inc"
    /\ IF FreeBits(cell, layout) # compare
       THEN /\ pc' = [pc EXCEPT ![t] = "done"]
            /\ UNCHANGED cell
       ELSE /\ cell' = Succ(cell, layout)
            /\ pc' = [pc EXCEPT ![t] = "k_wait"]
    /\ UNCHANGED left

\* imp/windows.rs:62  atomic.wait(compare, None): WaitOnAddress compares the
\* whole cell with compare and queues the thread when they are equal.
\* imp/windows.rs:84  wait_for_keyed_event(key, None): the thread waits for
\* a release on the key.
KWait(t, compare) ==
    /\ pc[t] = "k_wait"
    /\ pc' = [pc EXCEPT ![t] =
                IF platform = "keyed" \/ cell = compare THEN "k_blocked" ELSE "k_check"]
    /\ UNCHANGED <<cell, left>>

\* WaitOnAddress returns although nobody called WakeByAddressAll
KSpurious(t) ==
    /\ pc[t] = "k_blocked"
    /\ platform = "wait"
    /\ pc' = [pc EXCEPT ![t] = "k_check"]
    /\ UNCHANGED <<cell, left>>

\* imp/windows.rs:63-65 and 85-87  the load after the wait
KCheck(t, compare) ==
    /\ pc[t] = "k_check"
    /\ pc' = [pc EXCEPT ![t] =
                IF FreeBits(cell, layout) # compare THEN "done" ELSE "k_wait"]
    /\ UNCHANGED <<cell, left>>

\* imp/windows.rs:95-109  let state = atomic.swap(new, Release) & !RESERVED_MASK;
\* return if state == 0; else wake, or release wake_count = state times
KSwap(w, new) ==
    /\ pc[w] = "k_swap"
    /\ cell' = new
    /\ LET state == cell \ RESERVED_MASK(layout)
       IN  IF state = {}
           THEN /\ pc' = [pc EXCEPT ![w] = "done"]
                /\ UNCHANGED left
           ELSE IF platform = "wait"
           THEN /\ pc' = [pc EXCEPT ![w] = "k_wake"]
                /\ UNCHANGED left
           ELSE /\ pc' = [pc EXCEPT ![w] = "k_release"]
                /\ left' = Iterations(state)

\* WakeByAddressAll
KWakeAll(f) ==
    [u \in DOMAIN f |-> IF f[u] = "k_blocked" THEN "k_check" ELSE f[u]]

\* imp/windows.rs:101  atomic.wake()
KWake(w) ==
    /\ pc[w] = "k_wake"
    /\ pc' = [KWakeAll(pc) EXCEPT ![w] = "done"]
    /\ UNCHANGED <<cell, left>>

\* the threads waiting for a release on the key
KBlocked == {t \in Waiters : pc[t] = "k_blocked"}

\* imp/windows.rs:204-206  one NtReleaseKeyedEvent of the loop: it hands the
\* event to one waiting thread, or times out when none is waiting
KRelease(w) ==
    /\ pc[w] = "k_release"
    /\ left > 0
    /\ left' = left - 1
    /\ \E t \in KBlocked \cup {w} :
          /\ t = w => KBlocked = {}
          /\ pc' = [pc EXCEPT ![t] = IF t = w THEN pc[w] ELSE "k_check",
                              ![w] = IF left = 1 THEN "done" ELSE "k_release"]
    /\ UNCHANGED cell

InitK ==
    /\ layout \in {"32", "64le"}
    /\ variant = "imp"
    /\ platform \in Backends
    /\ cell \in UserValues(layout)
    /\ parker = 0
    /\ arg \in Calls(layout)
    /\ pc = [t \in Waiters \cup Wakers |->
                IF t \in Waiters THEN "k_load"
                ELSE IF arg[t] = NoCall THEN "done" ELSE "k_swap"]
    /\ tmo = <<>>
    /\ waits = <<>>
    /\ budget = <<>>
    /\ parks = <<>>
    /\ flag = FALSE
    /\ round = 0
    /\ value = 0
    /\ seen = <<>>
    /\ conv = <<>>
    /\ left = 0
    /\ node = <<>>
    /\ mutex = <<>>
    /\ status = <<>>
    /\ backend = <<>>
    /\ got = <<>>
    /\ event = FALSE

\* lib.rs:173-179: compare_and_wait(self, expected & !RESERVED_MASK),
\* store_and_wake(self, new)
WinLoad(t) == KLoad(t, ApiExpected(arg[t], layout)) /\ UNCHANGED otherK
WinCas(t) == KCas(t, ApiExpected(arg[t], layout)) /\ UNCHANGED otherK
WinInc(t) == KInc(t, ApiExpected(arg[t], layout)) /\ UNCHANGED otherK
WinWait(t) == KWait(t, ApiExpected(arg[t], layout)) /\ UNCHANGED otherK
WinSpurious(t) == KSpurious(t) /\ UNCHANGED otherK
WinCheck(t) == KCheck(t, ApiExpected(arg[t], layout)) /\ UNCHANGED otherK
WinSwap(w) == KSwap(w, arg[w]) /\ UNCHANGED otherK
WinWake(w) == KWake(w) /\ UNCHANGED otherK
WinRelease(w) == KRelease(w) /\ UNCHANGED otherK

WinWaiterStep(t) == WinLoad(t) \/ WinCas(t) \/ WinInc(t) \/ WinWait(t) \/ WinCheck(t)
WinWakerStep(w) == WinSwap(w) \/ WinWake(w) \/ WinRelease(w)

NextK ==
    \/ \E t \in Waiters : WinLoad(t)
    \/ \E t \in Waiters : WinCas(t)
    \/ \E t \in Waiters : WinInc(t)
    \/ \E t \in Waiters : WinWait(t)
    \/ \E t \in Waiters : WinSpurious(t)
    \/ \E t \in Waiters : WinCheck(t)
    \/ \E w \in Wakers : WinSwap(w)
    \/ \E w \in Wakers : WinWake(w)
    \/ \E w \in Wakers : WinRelease(w)

SpecK == InitK /\ [][NextK]_vars

\* Every thread that can take a step does so in the end; a spurious return
\* of WaitOnAddress is never owed.
FairSpecK ==
    /\ InitK
    /\ [][NextK]_vars
    /\ \A t \in Waiters : WF_vars(WinWaiterStep(t))
    /\ \A w \in Wakers : WF_vars(WinWakerStep(w))

\* the broadcast on one cell: Keyed Events, every waiter waits for 0, one
\* store_and_wake(w) with free bits other than 0
Broadcast ==
    /\ platform = "keyed"
    /\ \A t \in Waiters : arg[t] = {}
    /\ \A w \in Wakers : arg[w] \notin {NoCall, {}}

\* C19 (the claim as stated): with Keyed Events, from a cell that holds 0,
\* waiters that call compare_and_wait(0) and one store_and_wake(w), w with
\* free bits other than 0, every waiter returns, the waker returns and the
\* cell holds w.
C19_KeyedBroadcast ==
    (/\ Broadcast
     /\ cell = {}
     /\ \A t \in Waiters : pc[t] = "k_load"
     /\ \A w \in Wakers : pc[w] = "k_swap")
        ~> (/\ \A t \in Waiters : pc[t] = "done"
            /\ \A w \in Wakers : pc[w] = "done" /\ cell = arg[w])

\* the waiter counter: the reserved bits of the cell
Counter(w) == w \cap RESERVED_MASK(layout)

\* C27 (the claim as stated): with Keyed Events, until a store_and_wake
\* swaps, the counter in the reserved bits is the number of threads that
\* have registered; the swap of store_and_wake goes on to as many
\* NtReleaseKeyedEvent calls as the counter it swapped out, and to none when
\* the counter was 0, whatever the free bits were.
C27_ReleasesEqualCounter ==
    /\ []((platform = "keyed" /\ \A w \in Wakers : pc[w] = "k_swap" \/ arg[w] = NoCall)
            => NatOf(Counter(cell)) =
                  Cardinality({t \in Waiters : pc[t] \in {"k_wait", "k_blocked", "k_check"}}))
    /\ [][\A w \in Wakers :
            (platform = "keyed" /\ pc[w] = "k_swap" /\ pc'[w] # pc[w]) =>
                IF Counter(cell) = {}
                THEN pc'[w] = "done"
                ELSE pc'[w] = "k_release" /\ left' = Iterations(Counter(cell))]_vars

-----------------------------------------------------------------------------
(* The Parker of imp/windows.rs with NT Keyed Events: thread 1 calls park, *)
(* the threads of Unparkers call unpark once each.  A keyed event is a     *)
(* rendezvous on the key: NtWaitForKeyedEvent and NtReleaseKeyedEvent      *)
(* each block until the other side arrives or their timeout expires.       *)

\* imp/windows.rs:138-141, 174-180  wait_for_keyed_event(key, timeout):
\* the thread takes the release of a thread blocked in NtReleaseKeyedEvent,
\* or waits on the key
KeyedWait(t) ==
    /\ pc[t] = "pk_wait"
    /\ waits' = [waits EXCEPT ![t] = Bump(@)]
    /\ IF \E u \in Unparkers : pc[u] = "up_blocked"
       THEN \E u \in Unparkers :
               /\ pc[u] = "up_blocked"
               /\ pc' = [pc EXCEPT ![t] = "pk_woke", ![u] = "done"]
       ELSE pc' = [pc EXCEPT ![t] = "pk_blocked"]
    /\ UNCHANGED parker

\* imp/windows.rs:176-185  the timeout handed to NtWaitForKeyedEvent
\* expires (STATUS_TIMEOUT); a null timeout never does
KeyedWaitTimeout(t) ==
    /\ pc[t] = "pk_blocked"
    /\ convert_timeout_100ns(tmo[t]).some
    /\ pc' = [pc EXCEPT ![t] = "pk_woke"]
    /\ UNCHANGED <<parker, waits>>

\* imp/windows.rs:165-168, 201-206  release_keyed_events(key, 1):
\* NtReleaseKeyedEvent wakes the thread waiting on the key, or blocks until
\* one arrives
KeyedRelease(u) ==
    /\ pc[u] = "up_wake"
    /\ IF \E t \in Parkers : pc[t] = "pk_blocked"
       THEN \E t \in Parkers :
               /\ pc[t] = "pk_blocked"
               /\ pc' = [pc EXCEPT ![t] = "pk_woke", ![u] = "done"]
       ELSE pc' = [pc EXCEPT ![u] = "up_blocked"]
    /\ UNCHANGED <<parker, waits>>

\* imp/windows.rs:202-206  the timeout of NtReleaseKeyedEvent (1000 units
\* of 100 ns) expires with no thread on the key; the status is not looked at
KeyedReleaseTimeout(u) ==
    /\ pc[u] = "up_blocked"
    /\ pc' = [pc EXCEPT ![u] = "done"]
    /\ UNCHANGED <<parker, waits>>

\* Parker::new(); BACKEND.get() returns Backend::Keyed
InitY ==
    /\ layout = "64le"
    /\ variant = "imp"
    /\ platform = "keyed"
    /\ cell = {}
    /\ parker = 0
    /\ pc = [t \in Parkers \cup Unparkers |-> IF t \in Parkers THEN "idle" ELSE "up_swap"]
    /\ arg = <<>>
    /\ tmo = [t \in Parkers |-> NoTimeout]
    /\ waits = [t \in Parkers |-> 0]
    /\ budget \in {b \in Budgets(FALSE) : \A t \in Parkers \ {1} : b[t] = 0}
    /\ parks = [t \in Parkers |-> 0]
    /\ flag = FALSE
    /\ round = 0
    /\ value = 0
    /\ seen = <<>>
    /\ conv = <<>>
    /\ left = 0
    /\ node = <<>>
    /\ mutex = <<>>
    /\ status = <<>>
    /\ backend = <<>>
    /\ got = <<>>
    /\ event = FALSE

YWait(t) == KeyedWait(t) /\ UNCHANGED <<tmo, parks, otherP>>
YWaitTimeout(t) == KeyedWaitTimeout(t) /\ UNCHANGED <<tmo, parks, otherP>>
YRelease(u) == KeyedRelease(u) /\ UNCHANGED <<tmo, parks, otherP>>
YReleaseTimeout(u) == KeyedReleaseTimeout(u) /\ UNCHANGED <<tmo, parks, otherP>>

NextY ==
    \/ \E t \in Parkers : PStart(t)
    \/ \E t \in Parkers : PCas(t)
    \/ \E t \in Parkers : PConsume(t)
    \/ \E t \in Parkers : YWait(t)
    \/ \E t \in Parkers : YWaitTimeout(t)
    \/ \E t \in Parkers : PWoke(t)
    \/ \E u \in Unparkers : PSwap(u)
    \/ \E u \in Unparkers : YRelease(u)
    \/ \E u \in Unparkers : YReleaseTimeout(u)

SpecY == InitY /\ [][NextY]_vars

\* C28 (the claim as stated): with Keyed Events, unpark goes on to a release
\* exactly when it swapped PARKED out, and every release ends by waking a
\* thread that is in its NtWaitForKeyedEvent on the key, or comes to it:
\* none is made for a thread that never waits.
C28_ReleaseConsumed ==
    [][\A u \in Unparkers :
          /\ (pc[u] = "up_swap" /\ pc'[u] # pc[u]) =>
                (pc'[u] = "up_wake" <=> parker = PARKED)
          /\ (pc[u] \in {"up_wake", "up_blocked"} /\ pc'[u] = "done") =>
                \E t \in Parkers :
                    pc[t] \in {"pk_wait", "pk_blocked"} /\ pc'[t] = "pk_woke"]_vars

-----------------------------------------------------------------------------
(* The Parker of posix.rs on one AtomicUsize: thread 1 parks, with or      *)
(* without a timeout, the other threads unpark.  The free bits of the cell *)
(* are the caller's.                                                       *)

\* posix.rs:27-28
NOTIFY_BIT == {0}
PTR_BITS(l) == RESERVED_MASK(l) \ NOTIFY_BIT

XUnparkers == 2 .. (1 + NUnparkers)

\* addresses of the PosixParker on the stack of park, #[repr(align(64))]
PosixAddrs == {{6, 9}, {7, 9}}

\* a record on a thread's stack: its address, whether it is still there, and
\* the local `current` of the function that owns it
Record(a, live, cur) == [addr |-> a, alive |-> live, current |-> cur]
NoRecord == Record({}, FALSE, {})

\* posix.rs:180-188  convert_timeout: None when as_secs() > time_t::max_value()
convert_timeout_ts(timeout, l) ==
    IF timeout.secs \ TimeMax(l) # {} THEN NoTimeout
    ELSE SomeTimeout(timeout.secs, timeout.nanos)

\* posix.rs:31-38  park() is park(self, None), park_timed(timeout) is
\* park(self, convert_timeout(timeout))
Timespec(timeout, l) ==
    IF timeout.some THEN convert_timeout_ts(timeout, l) ELSE NoTimeout

otherX == <<layout, variant, platform, status, backend, got, event, parker, arg, waits, budget, flag, round, value,
            seen, conv, left>>

InitX ==
    /\ layout \in {"32", "64le"}
    /\ variant = "mod"
    /\ platform = "posix"
    /\ cell \in UserValues(layout)
    /\ parker = 0
    /\ pc = [t \in {Main} \cup XUnparkers |-> IF t = Main THEN "idle" ELSE "u_or"]
    /\ arg = <<>>
    /\ tmo = [t \in {Main} |-> NoTimeout]
    /\ waits = <<>>
    /\ budget = [t \in {Main} |-> MaxParks]
    /\ parks = [t \in {Main} |-> 0]
    /\ flag = FALSE
    /\ round = 0
    /\ value = 0
    /\ seen = <<>>
    /\ conv = <<>>
    /\ left = 0
    /\ node = [t \in {Main} \cup XUnparkers |-> NoRecord]
    /\ mutex = [t \in {Main} |-> 0]
    /\ status = <<>>
    /\ backend = <<>>
    /\ got = <<>>
    /\ event = FALSE

\* posix.rs:76-87  the PosixParker is made, its mutex is locked
XStart ==
    /\ pc[Main] = "idle"
    /\ parks[Main] < budget[Main]
    /\ \E timeout \in Timeouts \ {SomeTimeout(SecsOf(0), 0)} :
          tmo' = [tmo EXCEPT ![Main] = timeout]
    /\ \E a \in PosixAddrs : node' = [node EXCEPT ![Main] = Record(a, TRUE, {})]
    /\ mutex' = [mutex EXCEPT ![Main] = Main]
    /\ parks' = [parks EXCEPT ![Main] = @ + 1]
    /\ pc' = [pc EXCEPT ![Main] = "x_cas"]
    /\ UNCHANGED <<cell, otherX>>

\* posix.rs:89-101  the loop around compare_and_swap(current, current | ptr):
\* the exchange succeeds on the value just tested, a failure hands back the
\* value of the cell, which is tested in turn
XCas ==
    /\ pc[Main] = "x_cas"
    /\ IF cell \cap RESERVED_MASK(layout) = NOTIFY_BIT
       THEN /\ pc' = [pc EXCEPT ![Main] = "x_unlock"]
            /\ UNCHANGED cell
       ELSE /\ cell' = cell \cup Shr(node[Main].addr, FREE_BITS)
            /\ pc' = [pc EXCEPT ![Main] = "x_wait"]
    /\ UNCHANGED <<tmo, parks, node, mutex, otherX>>

\* pthread_cond_wait / pthread_cond_timedwait (posix.rs:127, 142) and the
\* pthread_cond_wait of posix.rs:160: the mutex is released and the thread
\* blocks
XWait ==
    /\ pc[Main] \in {"x_wait", "x_wait2"}
    /\ mutex' = [mutex EXCEPT ![Main] = 0]
    /\ pc' = [pc EXCEPT ![Main] = IF pc[Main] = "x_wait" THEN "x_blocked" ELSE "x_blocked2"]
    /\ UNCHANGED <<cell, tmo, parks, node, otherX>>

\* a condition variable may wake with no signal
XSpurious ==
    /\ pc[Main] \in {"x_blocked", "x_blocked2"}
    /\ pc' = [pc EXCEPT ![Main] = IF pc[Main] = "x_blocked" THEN "x_woken" ELSE "x_woken2"]
    /\ UNCHANGED <<cell, tmo, parks, node, mutex, otherX>>

\* the time of pthread_cond_timedwait is up
XTimeout ==
    /\ pc[Main] = "x_blocked"
    /\ Timespec(tmo[Main], layout).some
    /\ pc' = [pc EXCEPT ![Main] = "x_woken"]
    /\ UNCHANGED <<cell, tmo, parks, node, mutex, otherX>>

\* the wait returns with the mutex locked again
XRelock ==
    /\ pc[Main] \in {"x_woken", "x_woken2"}
    /\ mutex[Main] = 0
    /\ mutex' = [mutex EXCEPT ![Main] = Main]
    /\ pc' = [pc EXCEPT ![Main] =
                IF pc[Main] = "x_woken2" THEN "x_unlock"
                ELSE IF Timespec(tmo[Main], layout).some THEN "x_tload" ELSE "x_check"]
    /\ UNCHANGED <<cell, tmo, parks, node, otherX>>

\* posix.rs:132-134 with the test  load & NOTIFY_BIT == NOTIFY_BIT
XCheckNotifyOnly ==
    /\ pc[Main] = "x_check"
    /\ pc' = [pc EXCEPT ![Main] =
                IF NOTIFY_BIT \subseteq cell THEN "x_unlock" ELSE "x_wait"]
    /\ UNCHANGED <<cell, tmo, parks, node, mutex, otherX>>

\* posix.rs:132-134  condvar_wait: leave the loop when the pointer is gone
\* and NOTIFY_BIT is set
XCheck ==
    /\ pc[Main] = "x_check"
    /\ pc' = [pc EXCEPT ![Main] =
                IF cell \cap RESERVED_MASK(layout) = NOTIFY_BIT THEN "x_unlock" ELSE "x_wait"]
    /\ UNCHANGED <<cell, tmo, parks, node, mutex, otherX>>

\* posix.rs:145-146  condvar_wait_timed: the load after the wait
XTLoad ==
    /\ pc[Main] = "x_tload"
    /\ node' = [node EXCEPT ![Main].current = cell]
    /\ pc' = [pc EXCEPT ![Main] =
                IF NOTIFY_BIT \subseteq cell THEN "x_unlock" ELSE "x_tcas"]
    /\ UNCHANGED <<cell, tmo, parks, mutex, otherX>>

\* posix.rs:149-165  compare_and_swap(current, current & !RESERVED_MASK), with
\* the current of the load above at every turn of the loop
XTCas ==
    /\ pc[Main] = "x_tcas"
    /\ IF cell = node[Main].current
       THEN /\ cell' = cell \ RESERVED_MASK(layout)
            /\ pc' = [pc EXCEPT ![Main] = "x_unlock"]
       ELSE /\ pc' = [pc EXCEPT ![Main] =
                        IF NOTIFY_BIT \subseteq cell THEN "x_wait2" ELSE "x_tcas"]
            /\ UNCHANGED cell
    /\ UNCHANGED <<tmo, parks, node, mutex, otherX>>

\* posix.rs:112  pthread_mutex_unlock
XUnlock ==
    /\ pc[Main] = "x_unlock"
    /\ mutex' = [mutex EXCEPT ![Main] = 0]
    /\ pc' = [pc EXCEPT ![Main] = "x_destroy"]
    /\ UNCHANGED <<cell, tmo, parks, node, otherX>>

\* posix.rs:114-116  pthread_mutex_destroy, pthread_cond_destroy
XDestroy ==
    /\ pc[Main] = "x_destroy"
    /\ node' = [node EXCEPT ![Main].alive = FALSE]
    /\ pc' = [pc EXCEPT ![Main] = "x_clear"]
    /\ UNCHANGED <<cell, tmo, parks, mutex, otherX>>

\* posix.rs:118  fetch_and(!NOTIFY_BIT), and the return; the record goes with
\* the stack frame
XClear ==
    /\ pc[Main] = "x_clear"
    /\ cell' = cell \ NOTIFY_BIT
    /\ pc' = [pc EXCEPT ![Main] = "idle"]
    /\ UNCHANGED <<tmo, parks, node, mutex, otherX>>

\* posix.rs:41-57  fetch_or(NOTIFY_BIT) and the match on the old value
UOr(u) ==
    /\ pc[u] = "u_or"
    /\ cell' = cell \cup NOTIFY_BIT
    /\ IF NOTIFY_BIT \subseteq cell \/ cell \cap PTR_BITS(layout) = {}
       THEN /\ pc' = [pc EXCEPT ![u] = "done"]
            /\ UNCHANGED node
       ELSE /\ pc' = [pc EXCEPT ![u] = "u_lock"]
            /\ node' = [node EXCEPT ![u] =
                          Record(Shl(cell \cap PTR_BITS(layout), FREE_BITS, layout), FALSE, {})]
    /\ UNCHANGED <<tmo, parks, mutex, otherX>>

\* the PosixParker that u's pointer leads to is on the stack of park
Live(u) == node[Main].alive /\ node[Main].addr = node[u].addr

\* posix.rs:64  pthread_mutex_lock((*ptr).mutex).  On a record that is gone
\* the call works on whatever is at the address: it returns, or never does.
ULock(u) ==
    /\ pc[u] = "u_lock"
    /\ IF Live(u)
       THEN /\ mutex[Main] = 0
            /\ mutex' = [mutex EXCEPT ![Main] = u]
            /\ pc' = [pc EXCEPT ![u] = "u_and"]
       ELSE /\ \E next \in {"u_and", "crashed"} : pc' = [pc EXCEPT ![u] = next]
            /\ UNCHANGED mutex
    /\ UNCHANGED <<cell, tmo, parks, node, otherX>>

\* posix.rs:66  fetch_and(!PTR_BITS)
UAnd(u) ==
    /\ pc[u] = "u_and"
    /\ cell' = cell \ PTR_BITS(layout)
    /\ pc' = [pc EXCEPT ![u] = "u_signal"]
    /\ UNCHANGED <<tmo, parks, node, mutex, otherX>>

\* posix.rs:67  pthread_cond_signal((*ptr).condvar)
USignal(u) ==
    /\ pc[u] = "u_signal"
    /\ pc' = [pc EXCEPT ![u] = "u_unlock",
                        ![Main] = IF Live(u) /\ pc[Main] = "x_blocked" THEN "x_woken"
                                  ELSE IF Live(u) /\ pc[Main] = "x_blocked2" THEN "x_woken2"
                                  ELSE pc[Main]]
    /\ UNCHANGED <<cell, tmo, parks, node, mutex, otherX>>

\* posix.rs:69  pthread_mutex_unlock((*ptr).mutex)
UUnlock(u) ==
    /\ pc[u] = "u_unlock"
    /\ mutex' = [mutex EXCEPT ![Main] = IF mutex[Main] = u THEN 0 ELSE mutex[Main]]
    /\ pc' = [pc EXCEPT ![u] = "done"]
    /\ UNCHANGED <<cell, tmo, parks, node, otherX>>

XParkStep ==
    XCas \/ XWait \/ XTimeout \/ XRelock \/ XCheck \/ XTLoad \/ XTCas \/ XUnlock
        \/ XDestroy \/ XClear
XUnparkStep(u) == UOr(u) \/ ULock(u) \/ UAnd(u) \/ USignal(u) \/ UUnlock(u)

NextX ==
    \/ XStart
    \/ XCas
    \/ XWait
    \/ XSpurious
    \/ XTimeout
    \/ XRelock
    \/ XCheck
    \/ XTLoad
    \/ XTCas
    \/ XUnlock
    \/ XDestroy
    \/ XClear
    \/ \E u \in XUnparkers : UOr(u)
    \/ \E u \in XUnparkers : ULock(u)
    \/ \E u \in XUnparkers : UAnd(u)
    \/ \E u \in XUnparkers : USignal(u)
    \/ \E u \in XUnparkers : UUnlock(u)

SpecX == InitX /\ [][NextX]_vars

-----------------------------------------------------------------------------
(* The Parker of fortanix.rs (SGX usercalls) on one AtomicUsize: thread 1  *)
(* parks, the other threads unpark.  The record on the stack of park holds *)
(* the TCS of the parking thread; usercalls::send makes EV_UNPARK pending  *)
(* for a TCS and usercalls::wait takes it.                                 *)

\* fortanix.rs:13-16  #[repr(align(64))] struct TcsParker { tcs }
TcsParker(a, live, t) == [addr |-> a, alive |-> live, tcs |-> t]
NoTcsParker == TcsParker({}, FALSE, {})
\* thread::current() of thread t
Tcs(t) == {t}

otherS == <<layout, variant, platform, status, backend, got, parker, arg, waits, budget, flag, round,
            value, seen, conv, left, mutex>>

InitS ==
    /\ layout = "64le"
    /\ variant = "mod"
    /\ platform = "sgx"
    /\ cell \in UserValues(layout)
    /\ parker = 0
    /\ pc = [t \in {Main} \cup XUnparkers |-> IF t = Main THEN "idle" ELSE "u_or"]
    /\ arg = <<>>
    /\ tmo = [t \in {Main} |-> NoTimeout]
    /\ waits = <<>>
    /\ budget = [t \in {Main} |-> MaxParks]
    /\ parks = [t \in {Main} |-> 0]
    /\ flag = FALSE
    /\ round = 0
    /\ value = 0
    /\ seen = <<>>
    /\ conv = <<>>
    /\ left = 0
    /\ node = [t \in {Main} \cup XUnparkers |-> NoTcsParker]
    /\ mutex = <<>>
    /\ status = <<>>
    /\ backend = <<>>
    /\ got = <<>>
    /\ event = FALSE

\* fortanix.rs:36-45  park: a timeout panics; else the TcsParker is made
TcsStart ==
    /\ pc[Main] = "idle"
    /\ parks[Main] < budget[Main]
    /\ parks' = [parks EXCEPT ![Main] = @ + 1]
    /\ \E timeout \in Timeouts :
          /\ tmo' = [tmo EXCEPT ![Main] = timeout]
          /\ IF timeout.some
             THEN /\ pc' = [pc EXCEPT ![Main] = "panicked"]
                  /\ UNCHANGED node
             ELSE /\ pc' = [pc EXCEPT ![Main] = "s_cas"]
                  /\ \E a \in PosixAddrs :
                        node' = [node EXCEPT ![Main] = TcsParker(a, TRUE, Tcs(Main))]
    /\ UNCHANGED <<cell, event, otherS>>

\* fortanix.rs:45-60  the loop around compare_exchange_weak(current,
\* current | ptr): any reserved bit in the value tested panics; the exchange
\* succeeds on the value just tested
TcsCas ==
    /\ pc[Main] = "s_cas"
    /\ IF cell \cap RESERVED_MASK(layout) # {}
       THEN /\ pc' = [pc EXCEPT ![Main] = "panicked"]
            /\ node' = [node EXCEPT ![Main].alive = FALSE]
            /\ UNCHANGED cell
       ELSE /\ cell' = cell \cup Shr(node[Main].addr, FREE_BITS)
            /\ pc' = [pc EXCEPT ![Main] = "s_wait"]
            /\ UNCHANGED node
    /\ UNCHANGED <<tmo, parks, event, otherS>>

\* fortanix.rs:62  usercalls::wait(EV_UNPARK, WAIT_INDEFINITE) returns with
\* the pending event
TcsWait ==
    /\ pc[Main] = "s_wait"
    /\ event
    /\ event' = FALSE
    /\ pc' = [pc EXCEPT ![Main] = "s_check"]
    /\ UNCHANGED <<cell, tmo, parks, node, otherS>>

\* fortanix.rs:62-65  usercalls::wait returns with no event of unpark
TcsSpurious ==
    /\ pc[Main] = "s_wait"
    /\ ~event
    /\ pc' = [pc EXCEPT ![Main] = "s_check"]
    /\ UNCHANGED <<cell, tmo, parks, node, event, otherS>>

\* fortanix.rs:66-70  leave the loop when the pointer is gone and NOTIFY_BIT
\* is set; park returns and the record goes with the stack frame
TcsCheck ==
    /\ pc[Main] = "s_check"
    /\ IF cell \cap RESERVED_MASK(layout) = NOTIFY_BIT
       THEN /\ pc' = [pc EXCEPT ![Main] = "idle"]
            /\ node' = [node EXCEPT ![Main].alive = FALSE]
       ELSE /\ pc' = [pc EXCEPT ![Main] = "s_wait"]
            /\ UNCHANGED node
    /\ UNCHANGED <<cell, tmo, parks, event, otherS>>

\* fortanix.rs:73-89  fetch_or(NOTIFY_BIT) and the match on the old value
TcsOr(u) ==
    /\ pc[u] = "u_or"
    /\ cell' = cell \cup NOTIFY_BIT
    /\ IF NOTIFY_BIT \subseteq cell \/ cell \cap PTR_BITS(layout) = {}
       THEN /\ pc' = [pc EXCEPT ![u] = "done"]
            /\ UNCHANGED node
       ELSE /\ pc' = [pc EXCEPT ![u] = "s_read"]
            /\ node' = [node EXCEPT ![u] =
                          TcsParker(Shl(cell \cap PTR_BITS(layout), FREE_BITS, layout), FALSE, {})]
    /\ UNCHANGED <<tmo, parks, event, otherS>>

\* fortanix.rs:90  target_tcs = (*ptr).tcs.  On a record that is gone the
\* read gives whatever is at the address, or the thread is lost.
TcsRead(u) ==
    /\ pc[u] = "s_read"
    /\ IF Live(u)
       THEN /\ node' = [node EXCEPT ![u].tcs = node[Main].tcs]
            /\ pc' = [pc EXCEPT ![u] = "s_and"]
       ELSE \/ /\ \E t \in {Tcs(Main), {}} : node' = [node EXCEPT ![u].tcs = t]
               /\ pc' = [pc EXCEPT ![u] = "s_and"]
            \/ /\ pc' = [pc EXCEPT ![u] = "crashed"]
               /\ UNCHANGED node
    /\ UNCHANGED <<cell, tmo, parks, event, otherS>>

\* fortanix.rs:94  fetch_and(!PTR_BITS)
TcsAnd(u) ==
    /\ pc[u] = "s_and"
    /\ cell' = cell \ PTR_BITS(layout)
    /\ pc' = [pc EXCEPT ![u] = "s_send"]
    /\ UNCHANGED <<tmo, parks, node, event, otherS>>

\* fortanix.rs:95-98  usercalls::send(EV_UNPARK, Some(target_tcs))
TcsSend(u) ==
    /\ pc[u] = "s_send"
    /\ event' = (event \/ node[u].tcs = Tcs(Main))
    /\ pc' = [pc EXCEPT ![u] = "done"]
    /\ UNCHANGED <<cell, tmo, parks, node, otherS>>

NextS ==
    \/ TcsStart
    \/ TcsCas
    \/ TcsWait
    \/ TcsSpurious
    \/ TcsCheck
    \/ \E u \in XUnparkers : TcsOr(u)
    \/ \E u \in XUnparkers : TcsRead(u)
    \/ \E u \in XUnparkers : TcsAnd(u)
    \/ \E u \in XUnparkers : TcsSend(u)

SpecS == InitS /\ [][NextS]_vars

-----------------------------------------------------------------------------
(* Waiters of waiter_queue.rs on one cell: the reserved bits hold the      *)
(* address of the first record of a list of waiters.                       *)

\* a Waiter record on the stack of compare_and_wait, #[repr(align(32))]:
\* its address, whether it is still there, its next link and its parker
\* ("notified" once unpark was called and park has not returned yet)
Waiter(a, live, nx, pk) == [addr |-> a, alive |-> live, next |-> nx, parker |-> pk]
NoWaiter == Waiter({}, FALSE, {}, "empty")
\* the address of the record in the frame of thread t
WaiterAddr(t) == {4 + t, 9}

otherQ == <<layout, variant, platform, status, backend, got, event, parker, arg, tmo, waits, budget, parks, flag,
            round, value, seen, conv, left, mutex>>

\* waiter_queue.rs:14-34  the loop around compare_and_swap(current, me): the
\* exchange succeeds on the value just tested, a failure hands back the
\* value of the cell, which is tested in turn
QLink(t, compare) ==
    /\ pc[t] = "q_link"
    /\ LET pub_bits == cell \ RESERVED_MASK(layout)
           next == Shl(cell \cap RESERVED_MASK(layout), FREE_BITS, layout)
           me == pub_bits \cup Shr(WaiterAddr(t), FREE_BITS)
       IN  IF pub_bits # compare
           THEN /\ pc' = [pc EXCEPT ![t] = "done"]
                /\ UNCHANGED <<cell, node>>
           ELSE /\ node' = [node EXCEPT ![t] = Waiter(WaiterAddr(t), TRUE, next, "empty")]
                /\ cell' = me
                /\ pc' = [pc EXCEPT ![t] = "q_park"]

\* waiter_queue.rs:38-39  node.parker.park(): it returns once unpark was
\* called on the record; then the load, and the record of this turn of the
\* loop is gone
QPark(t) ==
    /\ pc[t] = "q_park"
    /\ IF node[t].parker = "notified"
       THEN /\ node' = [node EXCEPT ![t] = NoWaiter]
            /\ pc' = [pc EXCEPT ![t] = "q_link"]
       ELSE /\ pc' = [pc EXCEPT ![t] = "q_parked"]
            /\ UNCHANGED node
    /\ UNCHANGED cell

\* waiter_queue.rs:44-48  swap(new) and the head of the list taken off
QSwap(w, new) ==
    /\ pc[w] = "q_swap"
    /\ cell' = new
    /\ node' = [node EXCEPT ![w].next =
                   Shl(cell \cap RESERVED_MASK(layout), FREE_BITS, layout)]
    /\ pc' = [pc EXCEPT ![w] = "q_walk"]

\* the threads whose record is at the address w has in next
QAt(w) == {t \in Waiters : node[t].alive /\ node[t].addr = node[w].next}

\* waiter_queue.rs:49-53 with the walk ending after the first record
QWalkHeadOnly(w) ==
    /\ pc[w] = "q_walk"
    /\ IF node[w].next = {}
       THEN /\ pc' = [pc EXCEPT ![w] = "done"]
            /\ UNCHANGED node
       ELSE IF QAt(w) = {}
       THEN /\ \E end \in {"done", "crashed"} : pc' = [pc EXCEPT ![w] = end]
            /\ UNCHANGED node
       ELSE \E t \in QAt(w) :
            /\ node' = [node EXCEPT ![w].next = {},
                                    ![t].parker = "notified"]
            /\ pc' = [pc EXCEPT ![t] = IF pc[t] = "q_parked" THEN "q_park" ELSE pc[t]]
    /\ UNCHANGED cell

\* waiter_queue.rs:49-53  one turn of the walk: the next link is read, then
\* the record's parker is unparked.  At an address where no record is left
\* the reads give whatever is there: the walk ends, or the thread is lost.
QWalk(w) ==
    /\ pc[w] = "q_walk"
    /\ IF node[w].next = {}
       THEN /\ pc' = [pc EXCEPT ![w] = "done"]
            /\ UNCHANGED node
       ELSE IF QAt(w) = {}
       THEN /\ \E end \in {"done", "crashed"} : pc' = [pc EXCEPT ![w] = end]
            /\ UNCHANGED node
       ELSE \E t \in QAt(w) :
            /\ node' = [node EXCEPT ![w].next = node[t].next,
                                    ![t].parker = "notified"]
            /\ pc' = [pc EXCEPT ![t] = IF pc[t] = "q_parked" THEN "q_park" ELSE pc[t]]
    /\ UNCHANGED cell

InitQ ==
    /\ layout \in Layouts
    /\ variant = "mod"
    /\ platform = "queue"
    /\ cell \in UserValues(layout)
    /\ parker = 0
    /\ arg \in Calls(layout)
    /\ pc = [t \in Waiters \cup Wakers |->
                IF t \in Waiters THEN "q_link"
                ELSE IF arg[t] = NoCall THEN "done" ELSE "q_swap"]
    /\ tmo = <<>>
    /\ waits = <<>>
    /\ budget = <<>>
    /\ parks = <<>>
    /\ flag = FALSE
    /\ round = 0
    /\ value = 0
    /\ seen = <<>>
    /\ conv = <<>>
    /\ left = 0
    /\ node = [t \in Waiters \cup Wakers |-> NoWaiter]
    /\ mutex = <<>>
    /\ status = <<>>
    /\ backend = <<>>
    /\ got = <<>>
    /\ event = FALSE

\* the calls arrive with the argument as the caller gave it
\* (waiter_queue.rs:12-13, 43)
QueueLink(t) == QLink(t, arg[t]) /\ UNCHANGED otherQ
QueuePark(t) == QPark(t) /\ UNCHANGED otherQ
QueueSwap(w) == QSwap(w, arg[w]) /\ UNCHANGED otherQ
QueueWalk(w) == QWalk(w) /\ UNCHANGED otherQ

NextQ ==
    \/ \E t \in Waiters : QueueLink(t)
    \/ \E t \in Waiters : QueuePark(t)
    \/ \E w \in Wakers : QueueSwap(w)
    \/ \E w \in Wakers : QueueWalk(w)

SpecQ == InitQ /\ [][NextQ]_vars

-----------------------------------------------------------------------------
(* Every implementation on one cell: the futex Waiters, the Windows        *)
(* Waiters, the waiter queue and the Parker of posix.rs, each from its own *)
(* initial state; what the library writes to the cell.                     *)

\* the futex Waiters in the run of one store_and_wake; the implementations
\* that do not look at a part of the word, on one layout
InitL ==
    \/ InitW1
    \/ InitK /\ layout = "64le"
    \/ InitQ /\ layout = "64le"
    \/ InitX /\ layout = "64le"

\* the implementation that is compiled in takes the steps
NextL ==
    \/ platform = "linux" /\ NextW
    \/ platform \in Backends /\ NextK
    \/ platform = "queue" /\ NextQ
    \/ platform = "posix" /\ NextX

SpecL == InitL /\ [][NextL]_vars

\* this step is the swap of a store_and_wake
Stores ==
    \E w \in Wakers :
        platform # "posix" /\ pc[w] \in {"sw_swap", "k_swap", "q_swap"} /\ pc'[w] # pc[w]

\* C13: a step that changes the free bits of the cell is the swap of a
\* store_and_wake; the writes of compare_and_wait (HAS_WAITERS, the count of
\* waiters, the link to a record) and of the park and unpark of posix.rs
\* leave the free bits as they were.
C13_FreeBitsFrame ==
    [][FreeBits(cell', layout) # FreeBits(cell, layout) => Stores]_vars

\* park has put the address of its record into a cell whose free bits are
\* not 0, and an unpark has set NOTIFY_BIT on top
C13_Witness ==
    /\ platform = "posix"
    /\ FreeBits(cell, layout) # {}
    /\ cell \cap PTR_BITS(layout) # {}
    /\ NOTIFY_BIT \subseteq cell


-----------------------------------------------------------------------------
(* compare_and_wait and store_and_wake over the futex adapter and on       *)
(* Windows, each from its own initial state.                               *)

InitF ==
    \/ InitW1
    \/ InitK /\ layout = "64le"

NextF ==
    \/ platform = "linux" /\ NextW
    \/ platform \in Backends /\ NextK

SpecF == InitF /\ [][NextF]_vars

\* C23: the step of compare_and_wait(expected) that makes its first
\* compare-exchange (on Windows: the load before it, too) on a cell whose
\* free bits are not expected is its return: the cell is left as it is and
\* no adapter wait is made.
C23_MismatchReturnsAtOnce ==
    [][\A t \in Waiters :
          (/\ platform \in {"linux"} \cup Backends
           /\ pc[t] \in {"cw_cas", "k_load", "k_cas", "k_inc"}
           /\ FreeBits(cell, layout) # ApiExpected(arg[t], layout)
           /\ pc'[t] # pc[t])
              => (cell' = cell /\ pc'[t] = "done")]_vars

\* a compare_and_wait has returned from a cell that holds another value and
\* no store_and_wake has run: HAS_WAITERS is not set
C23_Witness ==
    /\ platform = "linux"
    /\ \E t \in Waiters :
          /\ pc[t] = "done"
          /\ FreeBits(cell, layout) # ApiExpected(arg[t], layout)
    /\ \A t \in Waiters : pc[t] \in {"done", "cw_cas"}
    /\ \A w \in Wakers : pc[w] = "sw_swap"
    /\ cell \cap RESERVED_MASK(layout) = {}


\* C24 (the claim as stated): the adapter wait of compare_and_wait(expected)
\* is made with the value the waiter installed, expected | HAS_WAITERS: made
\* while the cell holds that value it suspends the thread, it does not
\* return at once.  For the futex implementations and for WaitOnAddress.
C24_WaitSuspendsOnOwnValue ==
    [][\A t \in Waiters :
          (/\ platform \in {"linux", "wait"}
           /\ pc[t] \in {"cw_wait", "k_wait"}
           /\ cell = ApiExpected(arg[t], layout) \cup
                        (IF platform = "linux" THEN HAS_WAITERS(layout)
                         ELSE WIN_HAS_WAITERS)
           /\ pc'[t] # pc[t])
              => pc'[t] \in {"cw_blocked", "k_blocked"}]_vars


-----------------------------------------------------------------------------
(* BACKEND of imp/windows.rs (the same code is in windows.rs): the choice  *)
(* between WaitOnAddress and NT Keyed Events, made by the first caller of  *)
(* get() and cached.  platform is what the probes find on the system:      *)
(* "wait" (ProbeWaitAddress succeeds), "keyed" (only ProbeKeyedEvent       *)
(* succeeds) or "none".  NThreads threads call get(), each at any time and *)
(* any number of times.                                                    *)

READY == 0
INITIALIZING == 1
EMPTY == 2

Callers == 1 .. NThreads

\* enum Backend { None, Wait(WaitAddress), Keyed(KeyedEvent) }; NotYet: the
\* thread has no value from get()
NotYet == "NotYet"
Probed(pf) == IF pf = "wait" THEN "Wait" ELSE IF pf = "keyed" THEN "Keyed" ELSE "None"

otherB == <<layout, variant, event, cell, parker, arg, tmo, waits, budget, parks, flag,
            round, value, seen, conv, left, node, mutex>>

\* BackendStatic::new(): status EMPTY, backend Backend::None
InitB ==
    /\ layout = "64le"
    /\ variant = "imp"
    /\ platform \in {"wait", "keyed", "none"}
    /\ status = EMPTY
    /\ backend = "None"
    /\ got = [t \in Callers |-> NotYet]
    /\ event = FALSE
    /\ pc = [t \in Callers |-> "idle"]
    /\ cell = {}
    /\ parker = 0
    /\ arg = <<>>
    /\ tmo = <<>>
    /\ waits = <<>>
    /\ budget = <<>>
    /\ parks = <<>>
    /\ flag = FALSE
    /\ round = 0
    /\ value = 0
    /\ seen = <<>>
    /\ conv = <<>>
    /\ left = 0
    /\ node = <<>>
    /\ mutex = <<>>

\* a thread calls BACKEND.get()
BCall(t) ==
    /\ pc[t] \in {"idle", "returned"}
    /\ pc' = [pc EXCEPT ![t] = "g_load"]
    /\ UNCHANGED <<status, backend, got, platform, otherB>>

\* get: if self.status.load(Acquire) == READY { return self.backend.get() }
\* self.init()
BGet(t) ==
    /\ pc[t] = "g_load"
    /\ pc' = [pc EXCEPT ![t] = IF status = READY THEN "g_read" ELSE "i_cas"]
    /\ UNCHANGED <<status, backend, got, platform, otherB>>

\* mutant: the exchange is a plain store; whoever gets here runs the probes
BCasBlind(t) ==
    /\ pc[t] = "i_cas"
    /\ status' = INITIALIZING
    /\ pc' = [pc EXCEPT ![t] = "i_probe"]
    /\ UNCHANGED <<backend, got, platform, otherB>>

\* init: status.compare_and_swap(EMPTY, INITIALIZING, Acquire); the winner
\* goes on to the probes, the others to `while status != READY`
BCas(t) ==
    /\ pc[t] = "i_cas"
    /\ status' = IF status = EMPTY THEN INITIALIZING ELSE status
    /\ pc' = [pc EXCEPT ![t] =
                IF status = EMPTY THEN "i_probe"
                ELSE IF status = READY THEN "i_read" ELSE "i_spin"]
    /\ UNCHANGED <<backend, got, platform, otherB>>

\* ProbeWaitAddress(), ProbeKeyedEvent(), or the panic when both fail
BProbe(t) ==
    /\ pc[t] = "i_probe"
    /\ pc' = [pc EXCEPT ![t] = IF Probed(platform) = "None" THEN "panicked" ELSE "i_set"]
    /\ UNCHANGED <<status, backend, got, platform, otherB>>

\* self.backend.set(backend)
BSet(t) ==
    /\ pc[t] = "i_set"
    /\ backend' = Probed(platform)
    /\ pc' = [pc EXCEPT ![t] = "i_store"]
    /\ UNCHANGED <<status, got, platform, otherB>>

\* self.status.store(READY, Release); return backend
BStore(t) ==
    /\ pc[t] = "i_store"
    /\ status' = READY
    /\ got' = [got EXCEPT ![t] = Probed(platform)]
    /\ pc' = [pc EXCEPT ![t] = "returned"]
    /\ UNCHANGED <<backend, platform, otherB>>

\* spin_loop_hint()
BHint(t) ==
    /\ pc[t] = "i_spin"
    /\ pc' = [pc EXCEPT ![t] = "i_load"]
    /\ UNCHANGED <<status, backend, got, platform, otherB>>

\* status = self.status.load(Acquire), and the test of the while loop
BLoad(t) ==
    /\ pc[t] = "i_load"
    /\ pc' = [pc EXCEPT ![t] = IF status = READY THEN "i_read" ELSE "i_spin"]
    /\ UNCHANGED <<status, backend, got, platform, otherB>>

\* self.backend.get(), in get (line 251) and at the end of init (line 280)
BRead(t) ==
    /\ pc[t] \in {"g_read", "i_read"}
    /\ got' = [got EXCEPT ![t] = backend]
    /\ pc' = [pc EXCEPT ![t] = "returned"]
    /\ UNCHANGED <<status, backend, platform, otherB>>

\* the steps of a thread inside get()
BStep(t) ==
    BGet(t) \/ BCas(t) \/ BProbe(t) \/ BSet(t) \/ BStore(t) \/ BHint(t) \/ BLoad(t) \/ BRead(t)

NextB ==
    \/ \E t \in Callers : BCall(t)
    \/ \E t \in Callers : BGet(t)
    \/ \E t \in Callers : BCas(t)
    \/ \E t \in Callers : BProbe(t)
    \/ \E t \in Callers : BSet(t)
    \/ \E t \in Callers : BStore(t)
    \/ \E t \in Callers : BHint(t)
    \/ \E t \in Callers : BLoad(t)
    \/ \E t \in Callers : BRead(t)

SpecB == InitB /\ [][NextB]_vars

\* A thread inside get() goes on when scheduled; calling get() is up to the
\* caller.
FairSpecB ==
    /\ InitB
    /\ [][NextB]_vars
    /\ \A t \in Callers : WF_vars(BStep(t))


\* C29: the status goes from EMPTY to INITIALIZING to READY and never
\* back; the exchange that starts the probes is won only on EMPTY, so by one
\* caller; the backend is written once, from Backend::None and before READY
\* is stored; a caller reads the backend only under READY, and every get()
\* that returns gives the backend that was probed, never Backend::None.
C29_BackendInitializedOnce ==
    /\ [](/\ \A t \in Callers : pc[t] \in {"g_read", "i_read"} => status = READY
          /\ \A t \in Callers : got[t] # NotYet =>
                (got[t] = Probed(platform) /\ got[t] # "None")
          /\ status = READY => backend = Probed(platform)
          /\ Cardinality({t \in Callers : pc[t] \in {"i_probe", "i_set", "i_store"}}) <= 1)
    /\ [][/\ status' # status =>
                \/ status = EMPTY /\ status' = INITIALIZING
                \/ status = INITIALIZING /\ status' = READY
          /\ \A t \in Callers :
                (pc[t] = "i_cas" /\ pc'[t] = "i_probe") =>
                    (status = EMPTY /\ status' = INITIALIZING)
          /\ backend' # backend =>
                (backend = "None" /\ status = INITIALIZING /\ status' = INITIALIZING)
         ]_vars

\* with only Keyed Events on the system, the three ways out of get(): the
\* winner has returned, a caller that found READY at its first load is about
\* to read the backend, and so is one that lost the exchange and spun
C29_Witness ==
    /\ platform = "keyed"
    /\ \E t, u, v \in Callers :
          /\ pc[t] = "returned" /\ got[t] = "Keyed"
          /\ pc[u] = "g_read"
          /\ pc[v] = "i_read"

\* C30 (the claim as stated): when neither interface can be resolved, every
\* call of get() ends in a panic: no caller stays in get() for ever.
C30_EveryCallerPanics ==
    \A t \in Callers :
        [](platform = "none" /\ pc[t] \notin {"idle", "returned"}
              => <>(pc[t] = "panicked"))


-----------------------------------------------------------------------------
(* The Parker of the condvar fallback (posix.rs) and of SGX (fortanix.rs), *)
(* each from its own initial state.                                        *)

InitV ==
    \/ InitX /\ layout = "64le"
    \/ InitS

NextV ==
    \/ platform = "posix" /\ NextX
    \/ platform = "sgx" /\ NextS

SpecV == InitV /\ [][NextV]_vars

\* the thread is in the part of unpark that works through the pointer it
\* took from the cell: posix.rs:64-69 (lock, fetch_and, signal, unlock),
\* fortanix.rs:90 (the read of the tcs)
AtRecord(u) == pc[u] \in {"u_lock", "u_and", "u_signal", "u_unlock", "s_read"}

\* C31: during and after the first park of a cell, made without a timeout,
\* every unparker that works through the pointer finds the record of that
\* park still on the stack of the parking thread, and none is lost on a
\* record that is gone.
C31_RecordOutlivesUnparkers ==
    (parks[Main] = 1 /\ ~Timespec(tmo[Main], layout).some) =>
        \A u \in XUnparkers : pc[u] # "crashed" /\ (AtRecord(u) => Live(u))

\* an unparker holds the mutex of the record and is about to signal while
\* the parking thread, woken once with no signal, is blocked in
\* pthread_cond_wait again
C31_Witness ==
    /\ platform = "posix"
    /\ parks[Main] = 1
    /\ ~Timespec(tmo[Main], layout).some
    /\ pc[Main] = "x_blocked"
    /\ \E u \in XUnparkers : pc[u] = "u_signal" /\ Live(u) /\ mutex[Main] = u
    /\ \E u \in XUnparkers : pc[u] = "done"


\* C32 (the claim as stated): while an unpark that took the pointer of the
\* first park, a park with a timeout, has not yet released the mutex of the
\* record, the parking thread has not unlocked for its return, destroyed
\* the mutex and the condvar, or returned.
C32_TimedParkWaitsForUnpark ==
    (platform = "posix" /\ parks[Main] = 1 /\ Timespec(tmo[Main], layout).some) =>
        \A u \in XUnparkers :
            pc[u] \in {"u_lock", "u_and", "u_signal", "u_unlock"} =>
                pc[Main] \notin {"x_destroy", "x_clear", "idle"}


\* C33 (the claim as stated): the step in which park returns (posix.rs:118,
\* fortanix.rs:66-70) leaves every reserved bit of the cell zero, the
\* pointer bits and NOTIFY_BIT.
C33_ParkLeavesReservedZero ==
    [][(pc[Main] \in {"x_clear", "s_check"} /\ pc'[Main] = "idle") =>
            cell' \cap RESERVED_MASK(layout) = {}]_vars


\* C34 (the claim as stated): an unpark on a cell whose reserved bits are
\* zero sets NOTIFY_BIT, takes no pointer and returns; a park that finds the
\* reserved bits to be NOTIFY_BIT alone goes to its return (posix.rs:
\* the cleanup; fortanix.rs: the return), with no wait and no panic.
C34_UnparkBeforePark ==
    [][/\ \A u \in XUnparkers :
            (pc[u] = "u_or" /\ cell \cap RESERVED_MASK(layout) = {} /\ pc'[u] # pc[u]) =>
                (cell' = cell \cup NOTIFY_BIT /\ pc'[u] = "done")
       /\ (/\ pc[Main] \in {"x_cas", "s_cas"}
           /\ cell \cap RESERVED_MASK(layout) = NOTIFY_BIT
           /\ pc'[Main] # pc[Main])
              => pc'[Main] \in {"x_unlock", "idle"}]_vars


-----------------------------------------------------------------------------
(* The waiter queue with every thread scheduled, on a 64-bit cell; every   *)
(* waiter waits for the value the cell holds at first.                     *)

InitQ1 ==
    /\ InitQ
    /\ layout = "64le"
    /\ \A t \in Waiters : arg[t] = cell

FairSpecQ ==
    /\ InitQ1
    /\ [][NextQ]_vars
    /\ \A t \in Waiters : WF_vars(QueueLink(t)) /\ WF_vars(QueuePark(t))
    /\ \A w \in Wakers : WF_vars(QueueSwap(w)) /\ WF_vars(QueueWalk(w))

\* the threads whose records form the list that starts at address a
\* (at most n links are followed)
RECURSIVE ListFrom(_, _)
ListFrom(a, n) ==
    IF a = {} \/ n = 0 THEN {}
    ELSE LET S == {t \in Waiters : node[t].alive /\ node[t].addr = a}
         IN  S \cup UNION {ListFrom(node[t].next, n - 1) : t \in S}

\* the list in the cell, and the lists taken off by a store_and_wake that
\* is still walking
Linked == ListFrom(Shl(cell \cap RESERVED_MASK(layout), FREE_BITS, layout), NWaiters)
Detached(w) == IF pc[w] = "q_walk" THEN ListFrom(node[w].next, NWaiters) ELSE {}
InDetached(t) == \E w \in Wakers : t \in Detached(w)

\* the steps of store_and_wake: the swap takes the whole list off the cell;
\* a turn of the walk finds the record at its address, unparks it for the
\* first time and goes on with the link that record held
WalkInOrder ==
    \A w \in Wakers :
        /\ (pc[w] = "q_swap" /\ pc'[w] # pc[w]) =>
              /\ Detached(w)' = Linked
              /\ Linked' = {}
              /\ cell' = arg[w]
        /\ (pc[w] = "q_walk" /\ node[w].next # {}) =>
              /\ pc'[w] # "crashed"
              /\ node'[w] # node[w] =>
                    \E t \in Waiters :
                        /\ QAt(w) = {t}
                        /\ node[t].parker = "empty"
                        /\ node'[t].parker = "notified"
                        /\ node'[w].next = node[t].next
                        /\ Detached(w)' = Detached(w) \ {t}

\* no record is lost: a waiter whose record was not unparked yet is in the
\* list of the cell or in the list of a store_and_wake that is walking
NoneLost ==
    \A t \in Waiters :
        (pc[t] \in {"q_park", "q_parked"} /\ node[t].parker = "empty") =>
            (t \in Linked \/ InDetached(t))

-----------------------------------------------------------------------------
(* futex/mod.rs and imp/futex.rs as one Parker: a notification that an     *)
(* unpark leaves and a park takes.                                         *)

\* a notification is pending
Token == parker = NOTIFIED

\* the state of the Parker as far as the two implementations share it: while
\* the thread is between two waits futex/mod.rs holds NOT_PARKED, imp/futex.rs
\* holds PARKED
SharedState ==
    \A t \in Parkers : budget[t] = 1 =>
        /\ pc[t] = "idle" => parker \in {NOT_PARKED, NOTIFIED}
        /\ (pc[t] = "pk_cas" /\ ~Token) => parker = NOT_PARKED
        /\ (pc[t] \in {"pk_wait", "pk_blocked", "pk_woke"} /\ ~Token) => parker = PARKED
        /\ (pc[t] = "pk_cas" /\ waits[t] > 0) => variant = "mod"

\* the steps of the shared Parker: only an unpark leaves a notification,
\* only the return of park takes it; park returns with a notification or
\* after the wait of a park with a timeout, and leaves NOT_PARKED
SharedSteps ==
    /\ (~Token /\ Token') => \E u \in Unparkers : pc[u] = "up_swap" /\ pc'[u] # pc[u]
    /\ (Token /\ ~Token') => \E t \in Parkers : Returns(t)
    /\ \A t \in Parkers :
          Returns(t) => ((Token \/ (tmo[t].some /\ waits[t] > 0)) /\ parker' = NOT_PARKED)

\* C36: futex/mod.rs and imp/futex.rs are the same Parker for one park call
\* and any unparks: in both the state is that of the shared Parker, every
\* step is a step of the shared Parker, and park returns whenever the shared
\* Parker lets it return: once a notification is pending, or once the time
\* of a park with a timeout is up.
C36_SameParker ==
    /\ []SharedState
    /\ [][SharedSteps]_vars
    /\ \A t \in Parkers :
          (InPark(t) /\ (Token \/ ~WaitsForever(platform, tmo[t], layout)))
              ~> (pc[t] = "idle")

\* futex/mod.rs between two waits of park(None): the adapter returned with
\* no unpark, the swap has put NOT_PARKED back and the thread is about to
\* make its compare_exchange again
C36_Witness ==
    \E t \in Parkers :
        /\ variant = "mod"
        /\ budget[t] = 1 /\ ~tmo[t].some
        /\ pc[t] = "pk_cas" /\ waits[t] > 0
        /\ parker = NOT_PARKED


-----------------------------------------------------------------------------
(* The Parker of posix.rs with a caller that changes the free bits of the  *)
(* cell while threads park and unpark, and every thread scheduled.         *)

\* the caller writes another value to the free bits of the cell, which are
\* its own (lib.rs:240-247), and leaves the reserved bits as they are
XUser ==
    /\ \E v \in UserValues(layout) :
          /\ v # FreeBits(cell, layout)
          /\ cell' = (cell \cap RESERVED_MASK(layout)) \cup v
    /\ UNCHANGED <<pc, tmo, parks, node, mutex, otherX>>

NextXU ==
    \/ NextX
    \/ XUser

InitXU ==
    /\ InitX
    /\ layout = "64le"

\* A thread inside park, and an unpark past its fetch_or, go on; whether and
\* when park and unpark are called and the free bits change is up to the
\* caller, and a spurious return of the condvar is never owed.  A thread
\* that waits for the mutex gets it if the mutex is free again and again.
FairSpecX ==
    /\ InitXU
    /\ [][NextXU]_vars
    /\ WF_vars(XParkStep)
    /\ \A u \in XUnparkers :
          /\ SF_vars(ULock(u))
          /\ WF_vars(UAnd(u) \/ USignal(u) \/ UUnlock(u))

\* C37 (the claim as stated): the first park of a cell returns, once an
\* unpark has made its fetch_or or, with a timeout, in any case.
C37_ParkTerminates ==
    (/\ parks[Main] = 1
     /\ pc[Main] # "idle"
     /\ (Timespec(tmo[Main], layout).some \/ \E u \in XUnparkers : pc[u] # "u_or"))
        ~> (pc[Main] = "idle")


-----------------------------------------------------------------------------
(* The Parker of futex_like.rs and of linux.rs on one AtomicUsize: two     *)
(* bits of the cell hold the state.  Thread 1 parks, the other threads     *)
(* unpark once each.                                                       *)

LegacyVariants == {"futex_like", "linux"}

\* futex_like.rs:42-46  the state is shifted by RESERVED_BITS - 2;
\* linux.rs:11, 37-40  by UNCOMPARED_BITS = 8 * (size_of usize - size_of u32)
StateShift(v, l) == IF v = "futex_like" THEN RESERVED_BITS(l) - 2 ELSE WordBits(l) - 32
PARKED_usize(v, l) == {StateShift(v, l)}
NOTIFIED_usize(v, l) == {StateShift(v, l) + 1}
STATE_MASK(v, l) == {StateShift(v, l), StateShift(v, l) + 1}

\* the local `current` of park and of unpark
Local(cur) == Record({}, FALSE, cur)

\* what the futex compares: linux.rs:65 the 32 high-order bits of the word,
\* futex_like.rs:7-13 the word
Compared(w, v, l) == IF v = "linux" THEN {b \in w : b >= WordBits(l) - 32} ELSE w

otherG == <<layout, variant, platform, status, backend, got, event, parker, arg, tmo, waits, budget, flag,
            round, value, seen, conv, left, mutex>>

InitG ==
    /\ layout \in {"32", "64le"}
    /\ variant \in LegacyVariants
    /\ platform = "linux"
    /\ cell \in UserValues(layout)
    /\ parker = 0
    /\ pc = [t \in {Main} \cup XUnparkers |-> IF t = Main THEN "idle" ELSE "lu_load"]
    /\ arg = <<>>
    /\ tmo = <<>>
    /\ waits = <<>>
    /\ budget = [t \in {Main} |-> MaxParks]
    /\ parks = [t \in {Main} |-> 0]
    /\ flag = FALSE
    /\ round = 0
    /\ value = 0
    /\ seen = <<>>
    /\ conv = <<>>
    /\ left = 0
    /\ node = [t \in {Main} \cup XUnparkers |-> Local({})]
    /\ mutex = <<>>
    /\ status = <<>>
    /\ backend = <<>>
    /\ got = <<>>
    /\ event = FALSE

\* futex_like.rs:68, linux.rs:45  park: current = self.load(SeqCst)
LegacyLoad ==
    /\ pc[Main] = "idle"
    /\ parks[Main] < budget[Main]
    /\ parks' = [parks EXCEPT ![Main] = @ + 1]
    /\ node' = [node EXCEPT ![Main] = Local(cell)]
    /\ pc' = [pc EXCEPT ![Main] = "l_cas"]
    /\ UNCHANGED <<cell, otherG>>

\* futex_like.rs:70-85, linux.rs:47-62  the match on the state of current
\* and compare_and_swap(current, current | PARKED); a failure hands back the
\* value of the cell and the loop starts again
LegacyCas ==
    /\ pc[Main] = "l_cas"
    /\ LET current == node[Main].current
           state == current \cap STATE_MASK(variant, layout)
       IN  IF state = NOTIFIED_usize(variant, layout)
           THEN /\ pc' = [pc EXCEPT ![Main] = "l_reset"]
                /\ UNCHANGED <<cell, node>>
           ELSE IF state # {}
           THEN /\ pc' = [pc EXCEPT ![Main] = "panicked"]
                /\ UNCHANGED <<cell, node>>
           ELSE IF cell = current
           THEN /\ cell' = current \cup PARKED_usize(variant, layout)
                /\ pc' = [pc EXCEPT ![Main] = "l_wait"]
                /\ UNCHANGED node
           ELSE /\ node' = [node EXCEPT ![Main] = Local(cell)]
                /\ UNCHANGED <<cell, pc>>
    /\ UNCHANGED <<parks, otherG>>

\* futex_like.rs:87-88, linux.rs:64-66  while current & STATE_MASK !=
\* NOTIFIED: futex_wait(current | PARKED, None); the kernel compares and
\* either queues the thread or returns at once
LegacyWait ==
    /\ pc[Main] = "l_wait"
    /\ LET current == node[Main].current
       IN  pc' = [pc EXCEPT ![Main] =
                    IF current \cap STATE_MASK(variant, layout) = NOTIFIED_usize(variant, layout)
                    THEN "l_reset"
                    ELSE IF Compared(cell, variant, layout)
                              = Compared(current \cup PARKED_usize(variant, layout), variant, layout)
                    THEN "l_blocked"
                    ELSE "l_load"]
    /\ UNCHANGED <<cell, parks, node, otherG>>

\* the futex wait returns although nobody called wake
LegacySpurious ==
    /\ pc[Main] = "l_blocked"
    /\ pc' = [pc EXCEPT ![Main] = "l_load"]
    /\ UNCHANGED <<cell, parks, node, otherG>>

\* futex_like.rs:91, linux.rs:69  current = self.load(Relaxed)
LegacyReload ==
    /\ pc[Main] = "l_load"
    /\ node' = [node EXCEPT ![Main] = Local(cell)]
    /\ pc' = [pc EXCEPT ![Main] = "l_wait"]
    /\ UNCHANGED <<cell, parks, otherG>>

\* futex_like.rs:96, linux.rs:74  fetch_and(!STATE_MASK), and the return
LegacyReset ==
    /\ pc[Main] = "l_reset"
    /\ cell' = cell \ STATE_MASK(variant, layout)
    /\ pc' = [pc EXCEPT ![Main] = "idle"]
    /\ UNCHANGED <<parks, node, otherG>>

\* futex_like.rs:104, linux.rs:98  unpark: current = self.load(SeqCst)
LegacyUnparkLoad(u) ==
    /\ pc[u] = "lu_load"
    /\ node' = [node EXCEPT ![u] = Local(cell)]
    /\ pc' = [pc EXCEPT ![u] = "lu_cas"]
    /\ UNCHANGED <<cell, parks, otherG>>

\* futex_like.rs:105-118, linux.rs:99-112  compare_exchange(current,
\* (current & !STATE_MASK) | NOTIFIED); on an error unpark returns
LegacyUnparkCas(u) ==
    /\ pc[u] = "lu_cas"
    /\ IF cell = node[u].current
       THEN /\ cell' = (cell \ STATE_MASK(variant, layout)) \cup NOTIFIED_usize(variant, layout)
            /\ pc' = [pc EXCEPT ![u] = "lu_wake"]
       ELSE /\ pc' = [pc EXCEPT ![u] = "done"]
            /\ UNCHANGED cell
    /\ UNCHANGED <<parks, node, otherG>>

\* linux.rs:113-114  futex_wake(ptr, 1); futex_like.rs:119
\* self.futex_wake(NOTIFIED), which sets the cell to NOTIFIED and wakes the
\* threads that wait on it (futex_like.rs:15-24)
LegacyUnparkWake(u) ==
    /\ pc[u] = "lu_wake"
    /\ cell' = IF variant = "futex_like" THEN NOTIFIED_usize(variant, layout) ELSE cell
    /\ pc' = [pc EXCEPT ![u] = "done",
                        ![Main] = IF pc[Main] = "l_blocked" THEN "l_load" ELSE pc[Main]]
    /\ UNCHANGED <<parks, node, otherG>>

NextG ==
    \/ LegacyLoad
    \/ LegacyCas
    \/ LegacyWait
    \/ LegacySpurious
    \/ LegacyReload
    \/ LegacyReset
    \/ \E u \in XUnparkers : LegacyUnparkLoad(u)
    \/ \E u \in XUnparkers : LegacyUnparkCas(u)
    \/ \E u \in XUnparkers : LegacyUnparkWake(u)

SpecG == InitG /\ [][NextG]_vars

\* C38 (the claim as stated): with every unpark call completed, at least
\* one of them made during or before the first park, that park is not
\* blocked in its futex wait.
C38_NoLostUnpark ==
    (parks[Main] = 1 /\ \A u \in XUnparkers : pc[u] = "done") =>
        pc[Main] # "l_blocked"


-----------------------------------------------------------------------------
(* imp/futex.rs: compare_and_wait with the Err arm of its first loop as a  *)
(* step of its own, the value the failed exchange hands back kept in the   *)
(* local `current`.                                                        *)

otherA == <<layout, variant, platform, status, backend, got, event, parker, arg, tmo, waits, budget, parks,
            flag, round, value, seen, conv, left, mutex>>

InitA ==
    /\ layout \in Layouts
    /\ variant = "imp"
    /\ platform = "linux"
    /\ cell \in UserValues(layout)
    /\ parker = 0
    /\ arg \in Calls(layout)
    /\ pc = [t \in Waiters \cup Wakers |->
                IF t \in Waiters THEN "cw_cas"
                ELSE IF arg[t] = NoCall THEN "done" ELSE "sw_swap"]
    /\ tmo = <<>>
    /\ waits = <<>>
    /\ budget = <<>>
    /\ parks = <<>>
    /\ flag = FALSE
    /\ round = 0
    /\ value = 0
    /\ seen = <<>>
    /\ conv = <<>>
    /\ left = 0
    /\ node = [t \in Waiters |-> Local({})]
    /\ mutex = <<>>
    /\ status = <<>>
    /\ backend = <<>>
    /\ got = <<>>
    /\ event = FALSE

\* imp/futex.rs:14-20  compare_exchange_weak(compare, compare | HAS_WAITERS):
\* Ok leaves the loop; Err(current) hands back the value of the cell, and the
\* weak exchange may fail although the cell holds compare
AwCas(t) ==
    /\ pc[t] = "cw_cas"
    /\ LET compare == ApiExpected(arg[t], layout)
       IN  \/ /\ cell = compare
              /\ cell' = compare \cup HAS_WAITERS(layout)
              /\ pc' = [pc EXCEPT ![t] = "cw_wait"]
              /\ UNCHANGED node
           \/ /\ node' = [node EXCEPT ![t] = Local(cell)]
              /\ pc' = [pc EXCEPT ![t] = "cw_err"]
              /\ UNCHANGED cell
    /\ UNCHANGED otherA

\* what debug_assert!(current == compare | HAS_WAITERS) tests
AssertHolds(t) == node[t].current = ApiExpected(arg[t], layout) \cup HAS_WAITERS(layout)

\* imp/futex.rs:21-26  the Err arm: return if the free bits differ from
\* compare; else the assertion, which a build with debug assertions tests,
\* and the loop goes round
AwErr(t) ==
    /\ pc[t] = "cw_err"
    /\ IF FreeBits(node[t].current, layout) # ApiExpected(arg[t], layout)
       THEN pc' = [pc EXCEPT ![t] = "done"]
       ELSE \/ pc' = [pc EXCEPT ![t] = "cw_cas"]
            \/ /\ ~AssertHolds(t)
               /\ pc' = [pc EXCEPT ![t] = "panicked"]
    /\ UNCHANGED <<cell, node, otherA>>

NextA ==
    \/ \E t \in Waiters : AwCas(t)
    \/ \E t \in Waiters : AwErr(t)
    \/ \E t \in Waiters : WWait(t)
    \/ \E t \in Waiters : WSpurious(t)
    \/ \E t \in Waiters : WCheck(t)
    \/ \E t \in Wakers : WSwap(t)
    \/ \E t \in Wakers : WWake(t)

SpecA == InitA /\ [][NextA]_vars

\* C39 (the claim as stated): whenever the exchange has failed and the free
\* bits of the value it handed back equal compare, that value is exactly
\* compare | HAS_WAITERS.
C39_AssertionHolds ==
    \A t \in Waiters :
        (pc[t] = "cw_err" /\ FreeBits(node[t].current, layout) = ApiExpected(arg[t], layout))
            => AssertHolds(t)

\* the second half of C39: the reserved bits of the cell are 0 or HAS_WAITERS
ReservedZeroOrHasWaiters == cell \cap RESERVED_MASK(layout) \in {{}, HAS_WAITERS(layout)}


-----------------------------------------------------------------------------
(* The pointer in the reserved bits: thread 1 stores the address of its    *)
(* record in the cell (park of posix.rs, compare_and_wait of               *)
(* waiter_queue.rs), thread 2 reads it back (unpark, store_and_wake).      *)

\* mutant: the records are aligned to half of what their types ask for
AlignHalf(p) == IF p = "posix" THEN 5 ELSE 4

\* posix.rs:8  #[repr(align(64))] struct PosixParker, waiter_queue.rs:6
\* #[repr(align(32))] struct Waiter: the number of low bits that are 0
Align(p) == IF p = "posix" THEN 6 ELSE 5

\* some addresses a record of the implementation can have, never null
Addresses(p, l) == {a \in SUBSET {Align(p), Align(p) + 1, 9, WordBits(l) - 1} : a # {}}

\* the pointer part of the reserved bits: posix.rs:28 PTR_BITS,
\* waiter_queue.rs:16 RESERVED_MASK
PtrMask(p, l) == IF p = "posix" THEN PTR_BITS(l) ELSE RESERVED_MASK(l)

Decoder == Main + 1

InitE ==
    /\ layout \in Layouts
    /\ variant = "mod"
    /\ platform \in {"posix", "queue"}
    /\ \E v \in UserValues(layout) :
          \E prev \in IF platform = "queue" THEN {{}, {1, 5}} ELSE {{}} :
              cell = v \cup prev       \* prev: an older node, at {6, 10}
    /\ parker = 0
    /\ pc = [t \in {Main, Decoder} |-> IF t = Main THEN "e_store" ELSE "e_load"]
    /\ arg = <<>>
    /\ tmo = <<>>
    /\ waits = <<>>
    /\ budget = <<>>
    /\ parks = <<>>
    /\ flag = FALSE
    /\ round = 0
    /\ value = 0
    /\ seen = <<>>
    /\ conv = <<>>
    /\ left = 0
    /\ \E a \in Addresses(platform, layout) :
          node = [t \in {Main, Decoder} |-> IF t = Main THEN Record(a, TRUE, cell) ELSE NoRecord]
    /\ mutex = <<>>
    /\ status = <<>>
    /\ backend = <<>>
    /\ got = <<>>
    /\ event = FALSE

otherE == <<layout, variant, platform, status, backend, got, event, parker, arg, tmo, waits, budget, parks,
            flag, round, value, seen, conv, left, mutex>>

\* posix.rs:80, 97  ptr = (&parker as *const PosixParker as usize) >>
\* FREE_BITS; compare_and_swap(current, current | ptr), the reserved bits
\* of current being 0.  waiter_queue.rs:26-30  me = pub_bits | (&node as
\* usize >> FREE_BITS); compare_and_swap(current, me)
EncStore ==
    /\ pc[Main] = "e_store"
    /\ cell' = IF platform = "posix"
               THEN cell \cup Shr(node[Main].addr, FREE_BITS)
               ELSE FreeBits(cell, layout) \cup Shr(node[Main].addr, FREE_BITS)
    /\ pc' = [pc EXCEPT ![Main] = "stored"]
    /\ UNCHANGED <<node, otherE>>

\* posix.rs:41, 57  old = fetch_or(NOTIFY_BIT); ptr = (old & PTR_BITS) <<
\* FREE_BITS.  waiter_queue.rs:44-48  queue = swap(new); next = (queue &
\* RESERVED_MASK) << FREE_BITS
EncLoad ==
    /\ pc[Main] = "stored"
    /\ pc[Decoder] = "e_load"
    /\ \E new \in UserValues(layout) :
          cell' = IF platform = "posix" THEN cell \cup NOTIFY_BIT ELSE new
    /\ node' = [node EXCEPT ![Decoder] =
                  Record(Shl(cell \cap PtrMask(platform, layout), FREE_BITS, layout), FALSE, {})]
    /\ pc' = [pc EXCEPT ![Decoder] = "loaded"]
    /\ UNCHANGED otherE

NextE ==
    \/ EncStore
    \/ EncLoad

SpecE == InitE /\ [][NextE]_vars

\* C40: once the address of an aligned record is stored, the reserved bits
\* of the cell hold exactly address >> FREE_BITS (for the queue node; for the
\* parker record the cell had no reserved bit), the free bits are what they
\* were, and for the parker record NOTIFY_BIT is not set by the store; the
\* address read back from the cell is the address of the record.
C40_PointerRoundTrip ==
    /\ (pc[Main] = "stored" /\ pc[Decoder] = "e_load") =>
          /\ cell \cap RESERVED_MASK(layout) = Shr(node[Main].addr, FREE_BITS)
          /\ FreeBits(cell, layout) = FreeBits(node[Main].current, layout)
          /\ platform = "posix" => cell \cap NOTIFY_BIT = {}
    /\ pc[Decoder] = "loaded" => node[Decoder].addr = node[Main].addr

\* a parker record in the upper half of a 64-bit address space, read back
C40_Witness ==
    /\ platform = "posix"
    /\ layout = "64le"
    /\ pc[Decoder] = "loaded"
    /\ {6, 63} \subseteq node[Main].addr
    /\ NOTIFY_BIT \subseteq cell
    /\ FreeBits(cell, layout) # {}

====
